---- MODULE Spec2Model ----
\* The server side of the WebSocket opening handshake of rust-websocket:
\* validate (src/server/upgrade/mod.rs), the header parsers it calls
\* (src/header/*.rs), the synchronous into_ws / accept / reject
\* (src/server/upgrade/sync.rs) and the response headers they build; the
\* decoders of the HTTP codecs (src/codec/http.rs); the masking of frame
\* payloads (src/ws/util/mask.rs); the Sec-WebSocket-Protocol header
\* (src/header/sec_websocket_protocol.rs); and the echo endpoints of the
\* examples.  Each part has its own specification (Spec, CodecSpec, MaskSpec,
\* MaskerSpec, SimdSpec, ProtocolSpec, EchoSpec), which leaves the variables
\* of the other parts as they are.
\*
\* Text is modelled as sequences of bytes (0..255), header names as their
\* lower-case bytes (http::HeaderName normalises names to lower case), and a
\* HeaderMap as the sequence of its entries in insertion order, each entry
\* holding the values of one name in the order they were added.
EXTENDS Integers, Sequences, FiniteSets, TLC

VARIABLES
    pc,         \* where the handshake stands: "start", "upgrade", "failed",
                \* "panicked", "client", "rejected", "ioerror"
    stream,     \* the bytes the stream holds for reading
    given,      \* the RequestHead of a RequestStreamPair, or NoRequest
    request,    \* WsUpgrade.request (or the head returned with an error)
    headers,    \* WsUpgrade.headers: the response HeaderMap
    buffer,     \* WsUpgrade.buffer: Option<Buffer>
    error,      \* the HyperIntoWsError kind returned by into_ws, "none" for Ok,
                \* "panic" when validate panicked
    sent,       \* what send wrote: the status and the headers, or NothingSent
    readError,  \* whether the transport fails while into_ws reads the stream
    codec,      \* the codec decoding: "server", "client", or "none"
    input,      \* the bytes the peer sends to the codec, all of them
    wire,       \* the bytes of input that have not arrived yet
    src,        \* the BytesMut the codec decodes from
    decoded,    \* what the last decode returned
    mask,       \* the masking key, four bytes
    payload,    \* the bytes given to mask_data
    out,        \* the bytes mask_data returned last, with the calls made
    wsProtocol, \* a WebSocketProtocol: the list of protocol names
    rendered,   \* what Display, the header conversion and from_str gave for it
    endpoint,   \* the echo example running: "autobahn-server", "server",
                \* "autobahn-client", or "none"
    inbound,    \* the messages of the peer that the endpoint has not taken yet
    received,   \* the messages the endpoint has taken from its stream
    buffered,   \* the item Forward holds while the sink does not take it
    written,    \* the messages the endpoint's sink has taken, in order
    sinkClosed, \* whether the sink has been closed (Sink::close)
    task        \* where the endpoint's future stands: "greeting", "echo",
                \* "closing", "done", "failed", or "none"

\* The synchronous handshake
handshakeVars ==
    <<pc, stream, given, request, headers, buffer, error, sent, readError>>

\* The HTTP codecs
codecVars == <<codec, input, wire, src, decoded>>

\* Masking
maskVars == <<mask, payload, out>>

\* The Sec-WebSocket-Protocol header
protocolVars == <<wsProtocol, rendered>>

\* The echo examples
echoVars == <<endpoint, inbound, received, buffered, written, sinkClosed, task>>

vars == <<handshakeVars, codecVars, maskVars, protocolVars, echoVars>>

-----------------------------------------------------------------------------
\* Byte strings

\* "websocket"
WEBSOCKET == <<119, 101, 98, 115, 111, 99, 107, 101, 116>>
\* "Upgrade"
UPGRADE_TOKEN == <<85, 112, 103, 114, 97, 100, 101>>
\* "upgrade"
UPGRADE == <<117, 112, 103, 114, 97, 100, 101>>
\* "connection"
CONNECTION == <<99, 111, 110, 110, 101, 99, 116, 105, 111, 110>>
\* "sec-websocket-key"
SEC_WEBSOCKET_KEY ==
    <<115, 101, 99, 45, 119, 101, 98, 115, 111, 99, 107, 101, 116, 45, 107, 101, 121>>
\* "sec-websocket-version"
SEC_WEBSOCKET_VERSION ==
    <<115, 101, 99, 45, 119, 101, 98, 115, 111, 99, 107, 101, 116, 45, 118, 101, 114,
      115, 105, 111, 110>>
\* "sec-websocket-accept"
SEC_WEBSOCKET_ACCEPT ==
    <<115, 101, 99, 45, 119, 101, 98, 115, 111, 99, 107, 101, 116, 45, 97, 99, 99,
      101, 112, 116>>
\* "sec-websocket-protocol"
SEC_WEBSOCKET_PROTOCOL ==
    <<115, 101, 99, 45, 119, 101, 98, 115, 111, 99, 107, 101, 116, 45, 112, 114, 111,
      116, 111, 99, 111, 108>>
\* "keep-alive"
KEEP_ALIVE == <<107, 101, 101, 112, 45, 97, 108, 105, 118, 101>>
\* "close"
CLOSE == <<99, 108, 111, 115, 101>>
\* "13"
THIRTEEN == <<49, 51>>
\* "258EAFA5-E914-47DA-95CA-C5AB0DC85B11"
MAGIC_GUID ==
    <<50, 53, 56, 69, 65, 70, 65, 53, 45, 69, 57, 49, 52, 45, 52, 55, 68, 65, 45, 57,
      53, 67, 65, 45, 67, 53, 65, 66, 48, 68, 67, 56, 53, 66, 49, 49>>

\* An absent value (Option::None of a header lookup); no byte string equals it.
NoValue == <<-1>>

\* std char::is_whitespace on the ASCII range: space, \t, \n, \x0b, \x0c, \r.
IsWhitespace(b) == b \in {32, 9, 10, 11, 12, 13}

\* u8::to_ascii_lowercase
ToAsciiLower(b) == IF b >= 65 /\ b <= 90 THEN b + 32 ELSE b

\* unicase::eq_ascii / Ascii<S> == : equal lengths, equal bytes after ASCII
\* lower-casing.
EqAscii(a, b) ==
    /\ Len(a) = Len(b)
    /\ \A i \in 1..Len(a) : ToAsciiLower(a[i]) = ToAsciiLower(b[i])

\* str::trim: the text without its leading and trailing whitespace.
Trim(s) ==
    LET keep == {i \in 1..Len(s) : ~IsWhitespace(s[i])}
    IN  IF keep = {} THEN <<>>
        ELSE LET lo == CHOOSE i \in keep : \A j \in keep : i <= j
                 hi == CHOOSE i \in keep : \A j \in keep : j <= i
             IN  SubSeq(s, lo, hi)

\* str::split(c): the pieces between the occurrences of c, in order; a text
\* without c gives one piece, the empty text gives one empty piece.
Split(s, c) ==
    LET RECURSIVE go(_, _, _)
        go(i, cur, acc) ==
            IF i > Len(s) THEN Append(acc, cur)
            ELSE IF s[i] = c THEN go(i + 1, <<>>, Append(acc, cur))
            ELSE go(i + 1, Append(cur, s[i]), acc)
    IN  go(1, <<>>, <<>>)

\* str::splitn(2, c): the text before the first c and, when there is a c, the
\* text after it.
SplitN2(s, c) ==
    LET at == {i \in 1..Len(s) : s[i] = c}
    IN  IF at = {} THEN <<s>>
        ELSE LET p == CHOOSE i \in at : \A j \in at : i <= j
             IN  <<SubSeq(s, 1, p - 1), SubSeq(s, p + 1, Len(s))>>

\* [T]::join(sep) on byte strings.
Join(parts, sep) ==
    LET RECURSIVE go(_, _)
        go(i, acc) ==
            IF i > Len(parts) THEN acc
            ELSE go(i + 1, IF i = 1 THEN parts[i] ELSE acc \o sep \o parts[i])
    IN  go(1, <<>>)

\* HeaderValue::to_str succeeds only when every byte is visible ASCII
\* (32..126) or a tab; validate and prepare_headers unwrap its result.
IsVisibleAscii(v) == \A i \in 1..Len(v) : (v[i] >= 32 /\ v[i] < 127) \/ v[i] = 9

-----------------------------------------------------------------------------
\* http::HeaderMap

EmptyHeaderMap == <<>>

HeaderNames(h) == {h[i].name : i \in 1..Len(h)}

HeaderContains(h, name) == name \in HeaderNames(h)

HeaderIndex(h, name) == CHOOSE i \in 1..Len(h) : h[i].name = name

\* HeaderMap::get: the first value stored under the name, or None.
HeaderGet(h, name) ==
    IF HeaderContains(h, name) THEN h[HeaderIndex(h, name)].values[1] ELSE NoValue

\* HeaderMap::get_all: every value stored under the name, in order.
HeaderGetAll(h, name) ==
    IF HeaderContains(h, name) THEN h[HeaderIndex(h, name)].values ELSE <<>>

\* HeaderMap::insert: the value replaces every value stored under the name.
HeaderInsert(h, name, value) ==
    IF HeaderContains(h, name)
    THEN [h EXCEPT ![HeaderIndex(h, name)].values = <<value>>]
    ELSE Append(h, [name |-> name, values |-> <<value>>])

\* HeaderMap::append: the value is added after the values stored under the name.
HeaderAppend(h, name, value) ==
    IF HeaderContains(h, name)
    THEN [h EXCEPT ![HeaderIndex(h, name)].values = Append(@, value)]
    ELSE Append(h, [name |-> name, values |-> <<value>>])

\* HeaderMap::extend(other.into_iter()): into_iter yields each name once, with
\* its first value, then the further values of that name; extend inserts the
\* named item (replacing what the map held under the name) and appends the
\* further values.
HeaderExtend(h, other) ==
    LET RECURSIVE vals(_, _, _, _)
        vals(acc, name, vs, j) ==
            IF j > Len(vs) THEN acc
            ELSE vals(IF j = 1 THEN HeaderInsert(acc, name, vs[j])
                      ELSE HeaderAppend(acc, name, vs[j]), name, vs, j + 1)
        RECURSIVE go(_, _)
        go(acc, i) ==
            IF i > Len(other) THEN acc
            ELSE go(vals(acc, other[i].name, other[i].values, 1), i + 1)
    IN  go(h, 1)

\* Iteration over a HeaderMap: the (name, value) pairs, the values of one name
\* together.
HeaderPairs(h) ==
    LET RECURSIVE go(_, _)
        go(i, acc) ==
            IF i > Len(h) THEN acc
            ELSE go(i + 1,
                    acc \o [j \in 1..Len(h[i].values) |-> <<h[i].name, h[i].values[j]>>])
    IN  go(1, <<>>)

-----------------------------------------------------------------------------
\* src/header: the parsers validate calls

\* WebSocketVersion::from_str: "13" after trimming is WebSocket13, any other
\* text is Unknown(text); it never fails.
WebSocketVersion_from_str(value) ==
    LET v == Trim(value)
    IN  IF v = THIRTEEN THEN [kind |-> "WebSocket13"]
        ELSE [kind |-> "Unknown", text |-> v]

\* ProtocolName::from_str: "HTTP", "TLS" and "h2c" exactly, "websocket" in any
\* ASCII case, anything else is Unregistered.
ProtocolName_from_str(s) ==
    IF s = <<72, 84, 84, 80>> THEN [kind |-> "HTTP"]
    ELSE IF s = <<84, 76, 83>> THEN [kind |-> "TLS"]
    ELSE IF s = <<104, 50, 99>> THEN [kind |-> "H2C"]
    ELSE IF EqAscii(s, WEBSOCKET) THEN [kind |-> "WebSocket"]
    ELSE [kind |-> "Unregistered", text |-> s]

\* Protocol::from_str: name before the first '/', version after it.
Protocol_from_str(s) ==
    LET parts == SplitN2(s, 47)
    IN  [name |-> ProtocolName_from_str(parts[1]),
         version |-> IF Len(parts) > 1 THEN parts[2] ELSE NoValue]

\* Upgrade::from_str: split on ',', trim, drop the empty elements, parse each.
Upgrade_from_str(s) ==
    LET parts == Split(s, 44)
        trimmed == [i \in 1..Len(parts) |-> Trim(parts[i])]
        NonEmpty(x) == x # <<>>
        kept == SelectSeq(trimmed, NonEmpty)
    IN  [i \in 1..Len(kept) |-> Protocol_from_str(kept[i])]

\* ConnectionOption::from_str: keep-alive and close in any ASCII case, anything
\* else is a ConnectionHeader.
ConnectionOption_from_str(s) ==
    IF EqAscii(s, KEEP_ALIVE) THEN [kind |-> "KeepAlive"]
    ELSE IF EqAscii(s, CLOSE) THEN [kind |-> "Close"]
    ELSE [kind |-> "ConnectionHeader", text |-> s]

\* Connection::from_str: split on ',', trim, drop the empty elements, parse each.
Connection_from_str(s) ==
    LET parts == Split(s, 44)
        trimmed == [i \in 1..Len(parts) |-> Trim(parts[i])]
        NonEmpty(x) == x # <<>>
        kept == SelectSeq(trimmed, NonEmpty)
    IN  [i \in 1..Len(kept) |-> ConnectionOption_from_str(kept[i])]

-----------------------------------------------------------------------------
\* src/server/upgrade/mod.rs: validate

\* check_connection_header: some option is a ConnectionHeader equal to
\* "upgrade" in any ASCII case.
check_connection_header(options) ==
    \E i \in 1..Len(options) :
        /\ options[i].kind = "ConnectionHeader"
        /\ EqAscii(options[i].text, UPGRADE)

\* validate: the HyperIntoWsError kind it returns, "Ok", or "panic" when one of
\* its unwrap calls fails.
validate(method, version, hdrs) ==
    LET wsversion == HeaderGet(hdrs, SEC_WEBSOCKET_VERSION)
        upgrade == HeaderGet(hdrs, UPGRADE)
        connection == HeaderGet(hdrs, CONNECTION)
    IN  IF method # "GET" THEN "MethodNotGet"
        ELSE IF version = "HTTP_09" \/ version = "HTTP_09" THEN "UnsupportedHttpVersion"
        ELSE IF wsversion # NoValue /\ ~IsVisibleAscii(wsversion) THEN "panic"
        ELSE IF /\ wsversion # NoValue
                /\ WebSocketVersion_from_str(wsversion).kind # "WebSocket13"
             THEN "UnsupportedWebsocketVersion"
        ELSE IF HeaderGet(hdrs, SEC_WEBSOCKET_KEY) = NoValue THEN "NoSecWsKeyHeader"
        ELSE IF upgrade = NoValue THEN "NoUpgradeHeader"
        ELSE IF ~IsVisibleAscii(upgrade) THEN "panic"
        ELSE IF LET u == Upgrade_from_str(upgrade)
                IN  \A i \in 1..Len(u) : u[i].name.kind # "WebSocket"
             THEN "NoWsUpgradeHeader"
        ELSE IF connection = NoValue THEN "NoConnectionHeader"
        ELSE IF ~IsVisibleAscii(connection) THEN "panic"
        ELSE IF ~check_connection_header(Connection_from_str(connection))
             THEN "NoWsConnectionHeader"
        ELSE "Ok"

-----------------------------------------------------------------------------
\* base64 (the standard alphabet), as WebSocketKey and WebSocketAccept use it

\* The value of a base64 symbol, or -1 for a byte outside the alphabet.
Base64Value(b) ==
    IF b >= 65 /\ b <= 90 THEN b - 65
    ELSE IF b >= 97 /\ b <= 122 THEN b - 71
    ELSE IF b >= 48 /\ b <= 57 THEN b + 4
    ELSE IF b = 43 THEN 62
    ELSE IF b = 47 THEN 63
    ELSE -1

\* The symbol of a 6-bit value.
Base64Symbol(v) ==
    IF v < 26 THEN v + 65
    ELSE IF v < 52 THEN v + 71
    ELSE IF v < 62 THEN v - 4
    ELSE IF v = 62 THEN 43
    ELSE 47

\* base64::encode: three bytes to four symbols, the last group padded with '='.
Base64Encode(bytes) ==
    LET n == Len(bytes)
        byte(i) == IF i <= n THEN bytes[i] ELSE 0
        symbol(k) ==
            LET g == 3 * ((k - 1) \div 4)
                r == (k - 1) % 4
            IN  IF r = 0 THEN Base64Symbol(byte(g + 1) \div 4)
                ELSE IF r = 1
                     THEN Base64Symbol((byte(g + 1) % 4) * 16 + (byte(g + 2) \div 16))
                ELSE IF r = 2
                     THEN IF g + 2 <= n
                          THEN Base64Symbol((byte(g + 2) % 16) * 4 + (byte(g + 3) \div 64))
                          ELSE 61
                ELSE IF g + 3 <= n THEN Base64Symbol(byte(g + 3) % 64) ELSE 61
    IN  [k \in 1..(4 * ((n + 2) \div 3)) |-> symbol(k)]

\* base64::decode: fails on a byte outside the alphabet, on '=' anywhere but in
\* the last two places of the final group of four, and on a length that leaves
\* one symbol over; padding may be missing, and the bits of the last symbol that
\* fill no byte are dropped.
Base64Decode(text) ==
    LET n == Len(text)
        pads == {i \in 1..n : text[i] = 61}
        first == IF pads = {} THEN n + 1
                 ELSE CHOOSE i \in pads : \A j \in pads : i <= j
        m == first - 1
        wellformed ==
            /\ \A i \in 1..m : Base64Value(text[i]) >= 0
            /\ \A i \in first..n : text[i] = 61 /\ (i - 1) % 4 >= 2
            /\ n % 4 # 1
            /\ m % 4 # 1
        v(i) == Base64Value(text[i])
        byte(j) ==
            LET g == 4 * ((j - 1) \div 3)
                r == (j - 1) % 3
            IN  IF r = 0 THEN v(g + 1) * 4 + (v(g + 2) \div 16)
                ELSE IF r = 1 THEN (v(g + 2) % 16) * 16 + (v(g + 3) \div 4)
                ELSE (v(g + 3) % 4) * 64 + v(g + 4)
    IN  IF wellformed THEN [ok |-> TRUE, bytes |-> [j \in 1..((m * 6) \div 8) |-> byte(j)]]
        ELSE [ok |-> FALSE, bytes |-> <<>>]

\* WebSocketKey::from_str: the 16 bytes the text decodes to; an error when the
\* text is not base64 or decodes to another length.
WebSocketKey_from_str(key) ==
    LET d == Base64Decode(key)
    IN  IF d.ok /\ Len(d.bytes) = 16 THEN d ELSE [ok |-> FALSE, bytes |-> <<>>]

\* Display for WebSocketKey: base64 of the 16 bytes.
WebSocketKey_fmt(key) == Base64Encode(key)

-----------------------------------------------------------------------------
\* SHA-1 (the sha1 crate), on 32-bit words held as <<high 16 bits, low 16 bits>>

\* A value that is used more than once is bound in a set of one element
\* ({e(v) : v \in {x}}), which evaluates it once: the long chains of SHA-1
\* are evaluated link by link.

Xor4(a, b) ==
    ((a + b) % 2) + 2 * (((a \div 2) + (b \div 2)) % 2)
        + 4 * (((a \div 4) + (b \div 4)) % 2) + 8 * (((a \div 8) + (b \div 8)) % 2)

And4(a, b) ==
    ((a % 2) * (b % 2)) + 2 * (((a \div 2) % 2) * ((b \div 2) % 2))
        + 4 * (((a \div 4) % 2) * ((b \div 4) % 2)) + 8 * ((a \div 8) * (b \div 8))

Xor16(a, b) ==
    Xor4(a % 16, b % 16) + 16 * Xor4((a \div 16) % 16, (b \div 16) % 16)
        + 256 * Xor4((a \div 256) % 16, (b \div 256) % 16)
        + 4096 * Xor4(a \div 4096, b \div 4096)

And16(a, b) ==
    And4(a % 16, b % 16) + 16 * And4((a \div 16) % 16, (b \div 16) % 16)
        + 256 * And4((a \div 256) % 16, (b \div 256) % 16)
        + 4096 * And4(a \div 4096, b \div 4096)

\* The operations of u32 on <<high, low>>
WXor(x, y) ==
    CHOOSE r \in {<<Xor16(a[1], b[1]), Xor16(a[2], b[2])>> : a \in {x}, b \in {y}} : TRUE

WAnd(x, y) ==
    CHOOSE r \in {<<And16(a[1], b[1]), And16(a[2], b[2])>> : a \in {x}, b \in {y}} : TRUE

WOr(x, y) ==
    CHOOSE r \in {<<a[1] + b[1] - And16(a[1], b[1]), a[2] + b[2] - And16(a[2], b[2])>> :
                    a \in {x}, b \in {y}} : TRUE

WNot(x) == CHOOSE r \in {<<65535 - a[1], 65535 - a[2]>> : a \in {x}} : TRUE

\* u32::wrapping_add
WAdd(x, y) ==
    CHOOSE r \in {<<(a[1] + b[1] + ((a[2] + b[2]) \div 65536)) % 65536,
                    (a[2] + b[2]) % 65536>> : a \in {x}, b \in {y}} : TRUE

Pow2 == <<1, 2, 4, 8, 16, 32, 64, 128, 256, 512, 1024, 2048, 4096, 8192, 16384, 32768, 65536>>

\* u32::rotate_left(n), for 0 < n < 32 and n # 16
WRotl(x, n) ==
    CHOOSE r \in {<<((y[1] * Pow2[(n % 16) + 1]) % 65536) + (y[2] \div Pow2[17 - (n % 16)]),
                    ((y[2] * Pow2[(n % 16) + 1]) % 65536) + (y[1] \div Pow2[17 - (n % 16)])>> :
                    y \in {IF n >= 16 THEN <<x[2], x[1]>> ELSE x}} : TRUE

\* The message followed by 0x80, zeros up to 56 mod 64, and its length in bits
\* as 8 big-endian bytes.
Sha1Pad(msg) ==
    LET bits == Len(msg) * 8
        zeros == (55 - Len(msg)) % 64
    IN  msg \o <<128>> \o [i \in 1..zeros |-> 0]
            \o <<0, 0, 0, 0, (bits \div 16777216) % 256, (bits \div 65536) % 256,
                 (bits \div 256) % 256, bits % 256>>

\* The first 16 words of the message schedule: the block starting at off + 1
\* read as big-endian words.
Sha1Words(data, off) ==
    [t \in 1..16 |-> <<data[off + 4 * t - 3] * 256 + data[off + 4 * t - 2],
                       data[off + 4 * t - 1] * 256 + data[off + 4 * t]>>]

\* The message schedule continued up to upto words.
RECURSIVE Sha1Extend(_, _)
Sha1Extend(w, upto) ==
    CHOOSE r \in
        {IF Len(v) >= upto THEN v
         ELSE Sha1Extend(
                Append(v, WRotl(WXor(WXor(v[Len(v) - 2], v[Len(v) - 7]),
                                     WXor(v[Len(v) - 13], v[Len(v) - 15])), 1)),
                upto) : v \in {w}} : TRUE

\* Round t on the state s = <<a, b, c, d, e>>.
Sha1Round(s, w, t) ==
    LET a == s[1]
        b == s[2]
        c == s[3]
        d == s[4]
        e == s[5]
        f == IF t <= 20 THEN WOr(WAnd(b, c), WAnd(WNot(b), d))
             ELSE IF t <= 40 THEN WXor(WXor(b, c), d)
             ELSE IF t <= 60 THEN WOr(WOr(WAnd(b, c), WAnd(b, d)), WAnd(c, d))
             ELSE WXor(WXor(b, c), d)
        k == IF t <= 20 THEN <<23170, 31129>>
             ELSE IF t <= 40 THEN <<28377, 60321>>
             ELSE IF t <= 60 THEN <<36635, 48348>>
             ELSE <<51810, 49622>>
    IN  <<WAdd(WAdd(WAdd(WAdd(WRotl(a, 5), f), e), k), w[t]), a, WRotl(b, 30), c, d>>

\* The rounds t .. upto on the state s.
RECURSIVE Sha1Rounds(_, _, _, _)
Sha1Rounds(s, w, t, upto) ==
    CHOOSE r \in
        {IF t > upto THEN x ELSE Sha1Rounds(Sha1Round(x, w, t), w, t + 1, upto) :
            x \in {s}} : TRUE

\* One 64-byte block (the one starting at off + 1) folded into the state h.
Sha1Block(h, data, off) ==
    CHOOSE r \in
        {<<WAdd(h[1], s[1]), WAdd(h[2], s[2]), WAdd(h[3], s[3]),
           WAdd(h[4], s[4]), WAdd(h[5], s[5])>> :
            s \in {Sha1Rounds(Sha1Rounds(Sha1Rounds(Sha1Rounds(h, w, 1, 20), w, 21, 40),
                                         w, 41, 60), w, 61, 80) :
                    w \in {Sha1Extend(Sha1Extend(Sha1Extend(Sha1Extend(
                                Sha1Words(data, off), 32), 48), 64), 80)}}} : TRUE

\* The blocks of data from the one starting at off + 1 on, folded into h.
RECURSIVE Sha1Blocks(_, _, _)
Sha1Blocks(h, data, off) ==
    CHOOSE r \in
        {IF off >= Len(data) THEN x
         ELSE Sha1Blocks(Sha1Block(x, data, off), data, off + 64) : x \in {h}} : TRUE

\* Sha1::update(msg) then digest().bytes(): the 20 bytes of the digest.
Sha1(msg) ==
    CHOOSE r \in
        {[i \in 1..20 |->
            LET word == digest[((i - 1) \div 4) + 1]
                half == IF (i - 1) % 4 < 2 THEN word[1] ELSE word[2]
            IN  IF (i - 1) % 2 = 0 THEN half \div 256 ELSE half % 256] :
            digest \in {Sha1Blocks(<<<<26437, 8961>>, <<61389, 43913>>, <<39098, 56574>>,
                                     <<4146, 21622>>, <<50130, 57840>>>>, data, 0) :
                          data \in {Sha1Pad(msg)}}} : TRUE

\* WebSocketAccept::new as it would be if it hashed the 16 bytes of the key
\* instead of their base64 text.
WebSocketAccept_new_raw(key) == Sha1(key \o MAGIC_GUID)


\* WebSocketAccept::new: SHA-1 of the key written as base64 followed by the
\* GUID.
WebSocketAccept_new(key) == Sha1(WebSocketKey_fmt(key) \o MAGIC_GUID)

\* Display for WebSocketAccept / From<WebSocketAccept> for HeaderValue: base64
\* of the 20 bytes.
WebSocketAccept_fmt(accept) == Base64Encode(accept)

-----------------------------------------------------------------------------
\* httparse::Request::parse, as into_ws calls it: on one line of text, with
\* room for no header (httparse::Request::new(&mut [])).

\* The bytes httparse accepts in a token: visible ASCII but the separators.
IsToken(b) ==
    b > 32 /\ b < 127
    /\ b \notin {34, 40, 41, 44, 47, 58, 59, 60, 61, 62, 63, 64, 91, 92, 93, 123, 125}

\* The bytes httparse accepts in a request target.
IsUriToken(b) == b > 32 /\ b < 127

\* The first position at or after from whose byte is in stop, or 0.
IndexFrom(s, from, stop) ==
    LET hits == {i \in from..Len(s) : s[i] \in stop}
    IN  IF hits = {} THEN 0 ELSE CHOOSE i \in hits : \A j \in hits : i <= j

\* "HTTP/1."
HTTP_1_PREFIX == <<72, 84, 84, 80, 47, 49, 46>>

\* parse_version at position p: the minor version, or the error, or Partial.
HttparseVersion(buf, p) ==
    LET rest == SubSeq(buf, p, Len(buf))
        n == Len(rest)
    IN  IF n >= 8
        THEN IF SubSeq(rest, 1, 7) = HTTP_1_PREFIX /\ rest[8] \in {48, 49}
             THEN [status |-> "Ok", minor |-> rest[8] - 48]
             ELSE [status |-> "Version", minor |-> -1]
        ELSE IF rest = SubSeq(HTTP_1_PREFIX, 1, n)
             THEN [status |-> "Partial", minor |-> -1]
             ELSE [status |-> "Version", minor |-> -1]

\* newline! at position p: the position after the line end, or 0 with the
\* status that ends the parse.
HttparseNewline(buf, p) ==
    IF p > Len(buf) THEN [status |-> "Partial", next |-> 0]
    ELSE IF buf[p] = 10 THEN [status |-> "Ok", next |-> p + 1]
    ELSE IF buf[p] # 13 THEN [status |-> "NewLine", next |-> 0]
    ELSE IF p + 1 > Len(buf) THEN [status |-> "Partial", next |-> 0]
    ELSE IF buf[p + 1] = 10 THEN [status |-> "Ok", next |-> p + 2]
    ELSE [status |-> "NewLine", next |-> 0]

\* parse_headers_iter with no header slot: the end of the head completes the
\* parse, a header line is one header too many, the end of the text is Partial.
HttparseHeaders(buf, p) ==
    IF p > Len(buf) THEN "Partial"
    ELSE IF buf[p] = 10 THEN "Complete"
    ELSE IF buf[p] = 13
    THEN IF p + 1 > Len(buf) THEN "Partial"
         ELSE IF buf[p + 1] = 10 THEN "Complete" ELSE "NewLine"
    ELSE IF ~IsToken(buf[p]) THEN "HeaderName"
    ELSE "TooManyHeaders"

\* Request::parse: skip_empty_lines, the method, the path, the version, the
\* line end, the headers.
HttparseRequest(buf) ==
    LET Failed(s) == [status |-> s, method |-> <<>>, path |-> <<>>, minor |-> -1]
        RECURSIVE skip(_)
        skip(p) ==
            IF p > Len(buf) THEN [status |-> "Partial", next |-> 0]
            ELSE IF buf[p] \in {10, 13}
            THEN LET nl == HttparseNewline(buf, p)
                 IN  IF nl.status = "Ok" THEN skip(nl.next) ELSE nl
            ELSE [status |-> "Ok", next |-> p]
        start == skip(1)
        msp == IndexFrom(buf, start.next, {32} \cup {b \in 0..255 : ~IsToken(b)})
        psp == IndexFrom(buf, msp + 1, {32} \cup {b \in 0..255 : ~IsUriToken(b)})
        ver == HttparseVersion(buf, psp + 1)
        nl == HttparseNewline(buf, psp + 9)
    IN  IF start.status # "Ok" THEN Failed(start.status)
        ELSE IF msp = 0 THEN Failed("Partial")
        ELSE IF buf[msp] # 32 THEN Failed("Token")
        ELSE IF psp = 0 THEN Failed("Partial")
        ELSE IF buf[psp] # 32 THEN Failed("Token")
        ELSE IF ver.status # "Ok" THEN Failed(ver.status)
        ELSE IF nl.status # "Ok" THEN Failed(nl.status)
        ELSE [status |-> HttparseHeaders(buf, nl.next),
              method |-> SubSeq(buf, start.next, msp - 1),
              path |-> SubSeq(buf, msp + 1, psp - 1),
              minor |-> ver.minor]

\* From<httparse::Error> for HttpCodecError, wrapped in HyperIntoWsError::Http.
HttpError(e) ==
    IF e \in {"HeaderName", "HeaderValue", "NewLine", "Token"} THEN "Http(Header)"
    ELSE IF e = "Status" THEN "Http(Status)"
    ELSE IF e = "TooManyHeaders" THEN "Http(TooLarge)"
    ELSE "Http(Version)"

\* str::parse::<http::Method>: the methods the requests below use.
Method_from_str(s) ==
    IF s = <<71, 69, 84>> THEN "GET"
    ELSE IF s = <<80, 79, 83, 84>> THEN "POST"
    ELSE "EXTENSION"

\* BufRead::read_line: the text up to and including the first line feed, or
\* all of it when there is none.
ReadLine(s) ==
    LET lf == IndexFrom(s, 1, {10})
    IN  IF lf = 0 THEN s ELSE SubSeq(s, 1, lf)

-----------------------------------------------------------------------------
\* codec::http: the request head and its text

\* RequestHead: the version, the subject (method and path) and the headers.
RequestHead(method, version, path, hdrs) ==
    [method |-> method, version |-> version, path |-> path, headers |-> hdrs]

\* Option<RequestHead>::None
NoRequest == RequestHead("", "", <<>>, <<>>)

\* Option<Buffer>::None, and Buffer { buf, pos, cap }
NoBuffer == [some |-> FALSE, buf |-> <<>>, pos |-> 0, cap |-> 0]

Buffer(buf, pos, cap) == [some |-> TRUE, buf |-> buf, pos |-> pos, cap |-> cap]

\* Display for http::Method
Method_fmt(m) ==
    IF m = "GET" THEN <<71, 69, 84>> ELSE <<80, 79, 83, 84>>

\* Debug for http::Version
Version_fmt(v) ==
    IF v = "HTTP_09" THEN <<72, 84, 84, 80, 47, 48, 46, 57>>
    ELSE IF v = "HTTP_10" THEN <<72, 84, 84, 80, 47, 49, 46, 48>>
    ELSE IF v = "HTTP_11" THEN <<72, 84, 84, 80, 47, 49, 46, 49>>
    ELSE <<72, 84, 84, 80, 47, 50, 46, 48>>

CRLF == <<13, 10>>

\* HttpClientCodec::encode: the request line, one line per header value, and
\* the empty line.
HttpClientCodec_encode(item) ==
    LET pairs == HeaderPairs(item.headers)
        line(i) == pairs[i][1] \o <<58, 32>> \o pairs[i][2] \o CRLF
        lines[i \in 0..Len(pairs)] ==
            IF i = 0 THEN <<>> ELSE lines[i - 1] \o line(i)
    IN  Method_fmt(item.method) \o <<32>> \o item.path \o <<32>>
            \o Version_fmt(item.version) \o CRLF \o lines[Len(pairs)] \o CRLF

-----------------------------------------------------------------------------
\* The requests and the streams the handshake is run on

\* The longest list of elements an Upgrade or Connection value is joined from.
MaxElems == 2

\* "dGhlIHNhbXBsZSBub25jZQ==", the key of RFC 6455, and the same unpadded
SampleKey ==
    <<100, 71, 104, 108, 73, 72, 78, 104, 98, 88, 66, 115, 90, 83, 66, 117,
      98, 50, 53, 106, 90, 81, 61, 61>>

UnpaddedKey == SubSeq(SampleKey, 1, 22)

Methods == {"GET", "POST"}

Versions == {"HTTP_09", "HTTP_10", "HTTP_11", "HTTP_2"}

\* Sec-WebSocket-Version: absent, "13", " 13 ", "8", a byte outside ASCII, ""
VersionValues == {NoValue, THIRTEEN, <<32, 49, 51, 32>>, <<56>>, <<233>>, <<>>}

\* Sec-WebSocket-Key: absent, the sample key, padded or not, "YWJj" (three
\* bytes), "abc" (not a whole number of bytes), "", a byte outside ASCII
KeyValues ==
    {NoValue, SampleKey, UnpaddedKey, <<89, 87, 74, 106>>, <<97, 98, 99>>, <<>>, <<233>>}

\* The elements of an Upgrade value: "websocket", "WebSocket/13",
\* " WEBSOCKET ", "websockets", "h2c", "", a byte outside ASCII
UpgradeElems ==
    {WEBSOCKET, <<87, 101, 98, 83, 111, 99, 107, 101, 116, 47, 49, 51>>,
     <<32, 87, 69, 66, 83, 79, 67, 75, 69, 84, 32>>,
     <<119, 101, 98, 115, 111, 99, 107, 101, 116, 115>>, <<104, 50, 99>>, <<>>, <<233>>}

\* The elements of a Connection value: "Upgrade", "upgrade", " UPGRADE ",
\* "Upgrades", "keep-alive", "close", "", a byte outside ASCII
ConnectionElems ==
    {UPGRADE_TOKEN, UPGRADE, <<32, 85, 80, 71, 82, 65, 68, 69, 32>>,
     <<85, 112, 103, 114, 97, 100, 101, 115>>, KEEP_ALIVE, CLOSE, <<>>, <<233>>}

\* The values joined with "," from at most MaxElems elements.
JoinedValues(elems) ==
    {Join(l, <<44>>) : l \in UNION {[1..k -> elems] : k \in 0..MaxElems}}

\* The header map of a request that carries the given values (NoValue: the
\* header is not sent).
RequestHeaders(upgrade, connection, key, wsversion) ==
    LET add(h, name, v) == IF v = NoValue THEN h ELSE HeaderAppend(h, name, v)
    IN  add(add(add(add(EmptyHeaderMap, UPGRADE, upgrade), CONNECTION, connection),
                SEC_WEBSOCKET_KEY, key), SEC_WEBSOCKET_VERSION, wsversion)

\* The well-formed upgrade request
SampleRequest ==
    RequestHead("GET", "HTTP_11", <<47>>,
                RequestHeaders(WEBSOCKET, UPGRADE_TOKEN, SampleKey, THIRTEEN))

\* Requests that differ in what each rule of validate looks at.
RuleRequests ==
    {RequestHead(m, v, <<47>>, RequestHeaders(u, c, k, w)) :
        m \in Methods, v \in Versions, u \in {NoValue, WEBSOCKET, <<104, 50, 99>>},
        c \in {NoValue, UPGRADE_TOKEN, CLOSE}, k \in KeyValues, w \in VersionValues}

\* Requests that differ in the elements of the Upgrade value.
UpgradeRequests ==
    {RequestHead("GET", "HTTP_11", <<47>>,
                 RequestHeaders(u, UPGRADE_TOKEN, SampleKey, THIRTEEN)) :
        u \in JoinedValues(UpgradeElems)}

\* Requests that differ in the elements of the Connection value.
ConnectionRequests ==
    {RequestHead("GET", "HTTP_11", <<47>>,
                 RequestHeaders(WEBSOCKET, c, SampleKey, THIRTEEN)) :
        c \in JoinedValues(ConnectionElems)}

\* Requests that carry the elements of the Connection or of the Upgrade value
\* on two header lines of the same name, as HttpServerCodec::decode builds
\* them from such lines (HeaderMap::extend appends each line's value).
SplitLineRequests ==
    {RequestHead("GET", "HTTP_11", <<47>>,
                 HeaderAppend(RequestHeaders(WEBSOCKET, c[1], SampleKey, THIRTEEN),
                              CONNECTION, c[2])) :
        c \in {<<KEEP_ALIVE, UPGRADE_TOKEN>>, <<UPGRADE_TOKEN, KEEP_ALIVE>>,
               <<KEEP_ALIVE, CLOSE>>}}
    \cup
    {RequestHead("GET", "HTTP_11", <<47>>,
                 HeaderAppend(RequestHeaders(u[1], UPGRADE_TOKEN, SampleKey, THIRTEEN),
                              UPGRADE, u[2])) :
        u \in {<<(<<104, 50, 99>>), WEBSOCKET>>, <<WEBSOCKET, (<<104, 50, 99>>)>>}}

PairRequests ==
    RuleRequests \cup UpgradeRequests \cup ConnectionRequests \cup SplitLineRequests

\* What a stream holds: a request as a client writes it, alone or followed by
\* the first bytes of a frame, a request line cut short, nothing.
StreamInputs ==
    LET sample == HttpClientCodec_encode(SampleRequest)
        bare == HttpClientCodec_encode(RequestHead("GET", "HTTP_11", <<47>>, <<>>))
    IN  {sample, sample \o <<129, 128>>, bare,
         HttpClientCodec_encode(RequestHead("POST", "HTTP_10", <<47>>, <<>>)),
         HttpClientCodec_encode(RequestHead("GET", "HTTP_2", <<47>>, <<>>)),
         SubSeq(bare, 1, 14), SubSeq(bare, 1, 10), <<71, 64, 84>> \o SubSeq(bare, 4, 16),
         CRLF \o bare, <<>>}

-----------------------------------------------------------------------------
\* WsUpgrade: the response headers

\* Option<HeaderMap>
None == [some |-> FALSE, map |-> <<>>]

Some(map) == [some |-> TRUE, map |-> map]

\* The protocol lists given to use_protocols: "chat"; "chat", "superchat"
ProtocolLists ==
    {<<(<<99, 104, 97, 116>>)>>,
     <<(<<99, 104, 97, 116>>), (<<115, 117, 112, 101, 114, 99, 104, 97, 116>>)>>}

\* The headers given to accept_with and reject_with: one of the caller's
\* own ("x-custom: 1"), and ones under the names the response needs itself
\* (upgrade: h2c; connection: close; sec-websocket-accept: bogus;
\* sec-websocket-protocol: mqtt)
CustomHeaderMaps ==
    {<<[name |-> <<120, 45, 99, 117, 115, 116, 111, 109>>, values |-> <<(<<49>>)>>]>>,
     <<[name |-> UPGRADE, values |-> <<(<<104, 50, 99>>)>>]>>,
     <<[name |-> CONNECTION, values |-> <<CLOSE>>]>>,
     <<[name |-> SEC_WEBSOCKET_ACCEPT, values |-> <<(<<98, 111, 103, 117, 115>>)>>]>>,
     <<[name |-> SEC_WEBSOCKET_PROTOCOL, values |-> <<(<<109, 113, 116, 116>>)>>]>>}

\* WsUpgrade::use_protocols: Sec-WebSocket-Protocol is set to the protocols
\* joined with ", ".
use_protocols(hdrs, protocols) ==
    HeaderInsert(hdrs, SEC_WEBSOCKET_PROTOCOL, Join(protocols, <<44, 32>>))

\* The keys the requests above carry that WebSocketKey::from_str accepts.
RequestKeys ==
    {WebSocketKey_from_str(k).bytes :
        k \in {v \in KeyValues \ {NoValue} : WebSocketKey_from_str(v).ok}}

\* WebSocketAccept::new on each of these keys, evaluated once.
AcceptOf == [k \in RequestKeys |-> WebSocketAccept_new(k)]

\* WsUpgrade::prepare_headers: the custom headers are merged into the response
\* headers, the key of the request is read back (each unwrap panics on what
\* it cannot unwrap), and Sec-WebSocket-Accept, Connection and Upgrade are
\* appended.
prepare_headers(hdrs, req, custom) ==
    LET extended == IF custom.some THEN HeaderExtend(hdrs, custom.map) ELSE hdrs
        key == HeaderGet(req.headers, SEC_WEBSOCKET_KEY)
        parsed == WebSocketKey_from_str(key)
    IN  IF key = NoValue \/ ~IsVisibleAscii(key) \/ ~parsed.ok
        THEN [panic |-> TRUE, headers |-> extended, status |-> 0]
        ELSE [panic |-> FALSE,
              headers |->
                HeaderAppend(
                    HeaderAppend(
                        HeaderAppend(extended, SEC_WEBSOCKET_ACCEPT,
                                     WebSocketAccept_fmt(AcceptOf[parsed.bytes])),
                        CONNECTION, UPGRADE_TOKEN),
                    UPGRADE, WEBSOCKET),
              status |-> 101]

\* Nothing written to the stream yet.
NothingSent == [wrote |-> 0, version |-> "", status |-> 0, headers |-> <<>>]

\* WsUpgrade::send: the status line, then the headers; either write may fail,
\* and wrote counts the writes that went through.
SendOutcomes(version, status, hdrs) ==
    {[wrote |-> 0, version |-> "", status |-> 0, headers |-> <<>>],
     [wrote |-> 1, version |-> version, status |-> status, headers |-> <<>>],
     [wrote |-> 2, version |-> version, status |-> status, headers |-> hdrs]}

-----------------------------------------------------------------------------
\* The handshake

\* No codec is decoding.
NoItem == [kind |-> "none", head |-> <<>>, error |-> "none"]

CodecIdle ==
    /\ codec = "none"
    /\ input = <<>>
    /\ wire = <<>>
    /\ src = <<>>
    /\ decoded = NoItem

\* No data is being masked.
MaskIdle ==
    /\ mask = <<0, 0, 0, 0>>
    /\ payload = <<>>
    /\ out = [calls |-> 0, bytes |-> <<>>]

\* What has been made of a protocol list: nothing yet.
NotRendered == [done |-> FALSE, value |-> <<>>]

Rendered(v) == [done |-> TRUE, value |-> v]

NothingRendered ==
    [display |-> NotRendered, header |-> NotRendered, parsed |-> NotRendered]

\* No protocol list is being written.
ProtocolIdle ==
    /\ wsProtocol = <<>>
    /\ rendered = NothingRendered

\* No echo endpoint is running.
EchoIdle ==
    /\ endpoint = "none"
    /\ inbound = <<>>
    /\ received = <<>>
    /\ buffered = <<>>
    /\ written = <<>>
    /\ sinkClosed = FALSE
    /\ task = "none"

Init ==
    /\ pc = "start"
    /\ \/ stream \in StreamInputs /\ given = NoRequest /\ readError \in BOOLEAN
       \/ stream = <<>> /\ given \in PairRequests /\ readError = FALSE
    /\ request = NoRequest
    /\ headers = EmptyHeaderMap
    /\ buffer = NoBuffer
    /\ error = "none"
    /\ sent = NothingSent
    /\ CodecIdle
    /\ MaskIdle
    /\ ProtocolIdle
    /\ EchoIdle

\* IntoWs::into_ws for RequestStreamPair: validate the head given with the
\* stream.
IntoWsPair ==
    /\ pc = "start"
    /\ given # NoRequest
    /\ LET result == validate(given.method, given.version, given.headers)
       IN  /\ pc' = IF result = "Ok" THEN "upgrade"
                    ELSE IF result = "panic" THEN "panicked" ELSE "failed"
           /\ error' = IF result = "Ok" THEN "none" ELSE result
           /\ request' = IF result = "panic" THEN NoRequest ELSE given
    /\ UNCHANGED <<stream, given, headers, buffer, sent, readError>>
    /\ UNCHANGED <<codecVars, maskVars, protocolVars, echoVars>>

\* TryFrom<HeaderValue> for WebSocketKey: Ok with sixteen zero bytes, whatever
\* the value.
WebSocketKey_try_from(value) ==
    [ok |-> TRUE, bytes |-> [i \in 1..16 |-> 0]]

\* WsUpgrade::key: None without the header; else the first sixteen bytes of
\* the header text, as they are, over sixteen zero bytes.
WsUpgrade_key(req) ==
    LET k == HeaderGet(req.headers, SEC_WEBSOCKET_KEY)
    IN  IF k = NoValue THEN [ok |-> FALSE, bytes |-> <<>>]
        ELSE [ok |-> TRUE, bytes |-> [i \in 1..16 |-> IF i <= Len(k) THEN k[i] ELSE 0]]


\* The number of bytes read_line gets from the stream: the whole line, or,
\* when the transport fails, the bytes that arrived before the failure,
\* which do not reach the end of the line.
ReadLengths(s, fails) ==
    LET line == ReadLine(s)
    IN  IF ~fails THEN {Len(line)}
        ELSE IF line = <<>> THEN {0}
        ELSE 0..(Len(line) - 1)

\* IntoWs::into_ws for a stream: read one line through a BufReader, parse it,
\* take the stream back out of the reader, build the head and validate it.
\* The reader has taken taken bytes off the stream: the line at least, and
\* what else had arrived; into_inner drops what it holds.  When the transport
\* fails, read_line has got a part of the line before the failure, and its
\* result is not looked at.
IntoWsStream ==
    /\ pc = "start"
    /\ given = NoRequest
    /\ \E got \in ReadLengths(stream, readError) :
       LET buf == SubSeq(stream, 1, got)
           parse == HttparseRequest(buf)
           read == Buffer(buf, Len(buf), Len(buf))
           head == RequestHead(Method_from_str(parse.method),
                               IF parse.minor = 0 THEN "HTTP_10" ELSE "HTTP_11",
                               parse.path, EmptyHeaderMap)
           result == validate(head.method, head.version, head.headers)
       IN  /\ \E taken \in (IF readError THEN {got} ELSE got..Len(stream)) :
                stream' = SubSeq(stream, taken + 1, Len(stream))
           /\ IF parse.status # "Complete"
              THEN /\ pc' = "failed"
                   /\ error' = HttpError(IF parse.status = "Partial" THEN "HeaderValue"
                                         ELSE parse.status)
                   /\ request' = NoRequest
                   /\ buffer' = NoBuffer
              ELSE IF parse.minor \notin {0, 1}
              THEN /\ pc' = "failed"
                   /\ error' = HttpError("Version")
                   /\ request' = NoRequest
                   /\ buffer' = read
              ELSE /\ pc' = IF result = "Ok" THEN "upgrade" ELSE "failed"
                   /\ error' = IF result = "Ok" THEN "none" ELSE result
                   /\ request' = head
                   /\ buffer' = read
    /\ UNCHANGED <<given, headers, sent, readError>>
    /\ UNCHANGED <<codecVars, maskVars, protocolVars, echoVars>>

\* WsUpgrade::use_protocols
UseProtocols ==
    /\ pc = "upgrade"
    /\ \E protocols \in ProtocolLists : headers' = use_protocols(headers, protocols)
    /\ UNCHANGED <<pc, stream, given, request, buffer, error, sent, readError>>
    /\ UNCHANGED <<codecVars, maskVars, protocolVars, echoVars>>

\* WsUpgrade::internal_accept: prepare the headers and send them with the
\* status; the client keeps the headers, the buffer is dropped.
internal_accept(custom) ==
    /\ pc = "upgrade"
    /\ LET prepared == prepare_headers(headers, request, custom)
       IN  IF prepared.panic
           THEN /\ pc' = "panicked"
                /\ headers' = prepared.headers
                /\ sent' = sent
           ELSE /\ headers' = prepared.headers
                /\ sent' \in SendOutcomes(request.version, prepared.status,
                                          prepared.headers)
                /\ pc' = IF sent'.wrote = 2 THEN "client" ELSE "ioerror"
    /\ UNCHANGED <<stream, given, request, buffer, error, readError>>
    /\ UNCHANGED <<codecVars, maskVars, protocolVars, echoVars>>

\* WsUpgrade::accept
Accept == internal_accept(None)

\* WsUpgrade::accept_with
AcceptWith == \E custom \in CustomHeaderMaps : internal_accept(Some(custom))

\* internal_reject as it would be if it built the response the way
\* internal_accept does (prepare_headers) and only changed the status.
internal_reject_prepared(custom) ==
    /\ pc = "upgrade"
    /\ LET prepared == prepare_headers(headers, request, custom)
       IN  /\ headers' = prepared.headers
           /\ sent' \in SendOutcomes(request.version, 400, prepared.headers)
           /\ pc' = IF sent'.wrote = 2 THEN "rejected" ELSE "ioerror"
    /\ UNCHANGED <<stream, given, request, buffer, error, readError>>
    /\ UNCHANGED <<codecVars, maskVars, protocolVars, echoVars>>


\* WsUpgrade::internal_reject: merge the custom headers and send them with
\* 400 Bad Request; the stream is handed back.
internal_reject(custom) ==
    /\ pc = "upgrade"
    /\ LET merged == IF custom.some THEN HeaderExtend(headers, custom.map) ELSE headers
       IN  /\ headers' = merged
           /\ sent' \in SendOutcomes(request.version, 400, merged)
           /\ pc' = IF sent'.wrote = 2 THEN "rejected" ELSE "ioerror"
    /\ UNCHANGED <<stream, given, request, buffer, error, readError>>
    /\ UNCHANGED <<codecVars, maskVars, protocolVars, echoVars>>

\* WsUpgrade::reject
Reject == internal_reject(None)

\* WsUpgrade::reject_with
RejectWith == \E custom \in CustomHeaderMaps : internal_reject(Some(custom))

\* Who holds the stream at each outcome: into_ws returns it in its error,
\* accept moves it into the client, reject and a failed write return it to
\* the caller; a panic unwinds and drops it.
StreamHolder ==
    IF pc \in {"start", "failed", "rejected", "ioerror"} THEN "caller"
    ELSE IF pc = "upgrade" THEN "upgrade"
    ELSE IF pc = "client" THEN "client"
    ELSE "nobody"


Next ==
    \/ IntoWsPair
    \/ IntoWsStream
    \/ UseProtocols
    \/ Accept
    \/ AcceptWith
    \/ Reject
    \/ RejectWith

Spec == Init /\ [][Next]_vars

-----------------------------------------------------------------------------
\* codec::http: decoding a request head and a response head

\* The header slots decode gives httparse.
MAX_HEADERS == 100

\* The bytes httparse accepts in a header value.
IsHeaderValueToken(b) == (b >= 32 /\ b # 127) \/ b = 9

\* skip_empty_lines from position p: the position of the first byte that
\* starts no line end, or the status that ends the parse.
RECURSIVE HttparseSkipEmptyLines(_, _)
HttparseSkipEmptyLines(buf, p) ==
    IF p > Len(buf) THEN [status |-> "Partial", next |-> 0]
    ELSE IF buf[p] \in {10, 13}
    THEN LET nl == HttparseNewline(buf, p)
         IN  IF nl.status = "Ok"
             THEN CHOOSE r \in {HttparseSkipEmptyLines(buf, q) : q \in {nl.next}} : TRUE
             ELSE nl
    ELSE [status |-> "Ok", next |-> p]

\* parse_headers_iter from position p with slots header slots, parsed holding
\* the headers read so far: Complete with the position after the empty line
\* and the headers, or the status that ends the parse.  A header is its name,
\* a colon, blanks and tabs, its value, and a line end.
RECURSIVE HttparseHeadersIter(_, _, _, _)
HttparseHeadersIter(buf, p, slots, parsed) ==
    LET Ended(s) == [status |-> s, next |-> 0, headers |-> <<>>]
        colon == IndexFrom(buf, p, {58} \cup {b \in 0..255 : ~IsToken(b)})
        value == IndexFrom(buf, colon + 1, (0..255) \ {32, 9})
        stop == IndexFrom(buf, value, {b \in 0..255 : ~IsHeaderValueToken(b)})
        nl == HttparseNewline(buf, stop)
    IN  IF p > Len(buf) THEN Ended("Partial")
        ELSE IF buf[p] = 13
        THEN IF p + 1 > Len(buf) THEN Ended("Partial")
             ELSE IF buf[p + 1] = 10
             THEN [status |-> "Complete", next |-> p + 2, headers |-> parsed]
             ELSE Ended("NewLine")
        ELSE IF buf[p] = 10
        THEN [status |-> "Complete", next |-> p + 1, headers |-> parsed]
        ELSE IF ~IsToken(buf[p]) THEN Ended("HeaderName")
        ELSE IF Len(parsed) >= slots THEN Ended("TooManyHeaders")
        ELSE IF colon = 0 THEN Ended("Partial")
        ELSE IF buf[colon] # 58 THEN Ended("HeaderName")
        ELSE IF value = 0 THEN Ended("Partial")
        ELSE IF stop = 0 THEN Ended("Partial")
        ELSE IF nl.status = "Partial" THEN Ended("Partial")
        ELSE IF nl.status # "Ok" THEN Ended("HeaderValue")
        ELSE CHOOSE r \in
                {HttparseHeadersIter(buf, q, slots, hs) :
                    q \in {nl.next},
                    hs \in {Append(parsed, [name |-> SubSeq(buf, p, colon - 1),
                                            value |-> SubSeq(buf, value, stop - 1)])}} :
                TRUE

\* Request::parse with slots header slots: Complete with the length of the
\* head, the method, the path, the minor version and the headers, or the
\* status that ends the parse.
HttparseRequestHead(buf, slots) ==
    LET Ended(s) == [status |-> s, len |-> 0, method |-> <<>>, path |-> <<>>,
                     minor |-> -1, headers |-> <<>>]
        start == HttparseSkipEmptyLines(buf, 1)
        msp == IndexFrom(buf, start.next, {32} \cup {b \in 0..255 : ~IsToken(b)})
        psp == IndexFrom(buf, msp + 1, {32} \cup {b \in 0..255 : ~IsUriToken(b)})
        ver == HttparseVersion(buf, psp + 1)
        nl == HttparseNewline(buf, psp + 9)
        hdrs == HttparseHeadersIter(buf, nl.next, slots, <<>>)
    IN  IF start.status # "Ok" THEN Ended(start.status)
        ELSE IF msp = 0 THEN Ended("Partial")
        ELSE IF buf[msp] # 32 THEN Ended("Token")
        ELSE IF psp = 0 THEN Ended("Partial")
        ELSE IF buf[psp] # 32 THEN Ended("Token")
        ELSE IF ver.status # "Ok" THEN Ended(ver.status)
        ELSE IF nl.status # "Ok" THEN Ended(nl.status)
        ELSE IF hdrs.status # "Complete" THEN Ended(hdrs.status)
        ELSE [status |-> "Complete", len |-> hdrs.next - 1,
              method |-> SubSeq(buf, start.next, msp - 1),
              path |-> SubSeq(buf, msp + 1, psp - 1),
              minor |-> ver.minor, headers |-> hdrs.headers]

\* parse_reason from position p: the position after the line end that ends
\* the reason phrase, or the status that ends the parse.
HttparseReason(buf, p) ==
    LET stop == IndexFrom(buf, p, {b \in 0..255 : ~((b >= 32 /\ b <= 126) \/ b = 9)})
        nl == HttparseNewline(buf, stop)
    IN  IF stop = 0 THEN [status |-> "Partial", next |-> 0]
        ELSE IF buf[stop] \notin {10, 13} THEN [status |-> "Status", next |-> 0]
        ELSE IF nl.status = "NewLine" THEN [status |-> "Status", next |-> 0]
        ELSE nl

\* Response::parse with slots header slots: Complete with the length of the
\* head, the minor version, the status code and the headers, or the status
\* that ends the parse.  After the code comes a blank and the reason phrase,
\* or the line end.
HttparseResponseHead(buf, slots) ==
    LET Ended(s) == [status |-> s, len |-> 0, minor |-> -1, code |-> 0,
                     headers |-> <<>>]
        start == HttparseSkipEmptyLines(buf, 1)
        ver == HttparseVersion(buf, start.next)
        sp == start.next + 8
        digits == SubSeq(buf, sp + 1, IF sp + 3 > Len(buf) THEN Len(buf) ELSE sp + 3)
        bad == {i \in 1..Len(digits) : digits[i] < 48 \/ digits[i] > 57}
        after == sp + 4
        line == IF after > Len(buf) THEN [status |-> "Partial", next |-> 0]
                ELSE IF buf[after] = 32 THEN HttparseReason(buf, after + 1)
                ELSE IF buf[after] \in {10, 13}
                THEN LET nl == HttparseNewline(buf, after)
                     IN  IF nl.status = "NewLine"
                         THEN [status |-> "Status", next |-> 0] ELSE nl
                ELSE [status |-> "Status", next |-> 0]
        hdrs == HttparseHeadersIter(buf, line.next, slots, <<>>)
    IN  IF start.status # "Ok" THEN Ended(start.status)
        ELSE IF ver.status # "Ok" THEN Ended(ver.status)
        ELSE IF sp > Len(buf) THEN Ended("Partial")
        ELSE IF buf[sp] # 32 THEN Ended("Version")
        ELSE IF bad # {} THEN Ended("Status")
        ELSE IF Len(digits) < 3 THEN Ended("Partial")
        ELSE IF line.status # "Ok" THEN Ended(line.status)
        ELSE IF hdrs.status # "Complete" THEN Ended(hdrs.status)
        ELSE [status |-> "Complete", len |-> hdrs.next - 1, minor |-> ver.minor,
              code |-> (digits[1] - 48) * 100 + (digits[2] - 48) * 10
                          + (digits[3] - 48),
              headers |-> hdrs.headers]


\* From<httparse::Error> for HttpCodecError
HttpCodecError_from(e) ==
    IF e \in {"HeaderName", "HeaderValue", "NewLine", "Token"} THEN "Header"
    ELSE IF e = "Status" THEN "Status"
    ELSE IF e = "TooManyHeaders" THEN "TooLarge"
    ELSE "Version"

\* "\r\n\r\n"
HEAD_END == <<13, 10, 13, 10>>

\* The position of the first "\r\n\r\n" in buf, or 0.
HeadEndPosition(buf) ==
    LET hits == {p \in 1..(Len(buf) - 3) : SubSeq(buf, p, p + 3) = HEAD_END}
    IN  IF hits = {} THEN 0 ELSE CHOOSE p \in hits : \A q \in hits : p <= q

\* split_off_http: the text up to and including the first "\r\n\r\n" is split
\* off the buffer, which keeps the rest; nothing is when there is none.
split_off_http(buf) ==
    LET p == HeadEndPosition(buf)
    IN  IF p = 0 THEN [some |-> FALSE, head |-> <<>>, rest |-> buf]
        ELSE [some |-> TRUE, head |-> SubSeq(buf, 1, p + 3),
              rest |-> SubSeq(buf, p + 4, Len(buf))]

\* Uri::from_shared on the request targets decoded below, "*" or a path
\* without query and fragment: the path starts with "/" and every byte of it
\* is one a path may hold.
Uri_from_shared(path) ==
    \/ path = <<42>>
    \/ /\ path # <<>>
       /\ path[1] = 47
       /\ \A i \in 1..Len(path) :
             path[i] \in {33} \cup (36..59) \cup {61} \cup (64..95)
                             \cup (97..122) \cup {124, 126}

\* The headers HeadersAsBytesIter yields, appended to an empty HeaderMap:
\* HeaderName::from_bytes lower-cases the name, the value is kept as it is.
HeadersFromBytes(parsed) ==
    LET RECURSIVE go(_, _)
        go(acc, i) ==
            IF i > Len(parsed) THEN acc
            ELSE CHOOSE r \in
                    {go(h, i + 1) :
                        h \in {HeaderAppend(acc,
                                            [j \in 1..Len(parsed[i].name) |->
                                                ToAsciiLower(parsed[i].name[j])],
                                            parsed[i].value)}} : TRUE
    IN  go(EmptyHeaderMap, 1)

\* ResponseHead: the version, the subject (status code) and the headers.
ResponseHead(version, status, hdrs) ==
    [version |-> version, status |-> status, headers |-> hdrs]

\* What decode returns, with the buffer as decode leaves it: Ok(None),
\* Ok(Some(head)) or Err(error).
NeedMore(buf) == [kind |-> "NeedMore", head |-> <<>>, error |-> "none", src |-> buf]

Decoded(head, buf) == [kind |-> "Some", head |-> head, error |-> "none", src |-> buf]

DecodeError(e, buf) == [kind |-> "Err", head |-> <<>>, error |-> e, src |-> buf]

\* HttpServerCodec::decode: split the head off the buffer, parse it, build
\* the RequestHead.  What follows the parsed head in the part split off is
\* dropped with it.
HttpServerCodec_decode(buf) ==
    LET Built(split, parse) ==
            IF ~split.some THEN NeedMore(buf)
            ELSE IF parse.status = "Partial" THEN NeedMore(split.rest)
            ELSE IF parse.status # "Complete"
            THEN DecodeError(HttpCodecError_from(parse.status), split.rest)
            ELSE IF parse.method = <<>> THEN DecodeError("Method", split.rest)
            ELSE IF ~Uri_from_shared(parse.path) THEN DecodeError("Uri", split.rest)
            ELSE Decoded(RequestHead(Method_from_str(parse.method),
                                     IF parse.minor = 1 THEN "HTTP_11" ELSE "HTTP_10",
                                     parse.path, HeadersFromBytes(parse.headers)),
                         split.rest)
        SplitOff(split) ==
            CHOOSE r \in {Built(split, parse) :
                            parse \in {HttparseRequestHead(split.head, MAX_HEADERS)}} :
                TRUE
    IN  CHOOSE r \in {SplitOff(split) : split \in {split_off_http(buf)}} : TRUE

\* HttpClientCodec::decode: parse the buffer, any parse error counting as
\* Partial; on Complete split the head off the buffer and build the
\* ResponseHead.  StatusCode::from_u16 takes 100 to 599.
HttpClientCodec_decode(buf) ==
    LET Parsed(parse) ==
            IF buf = <<>> THEN NeedMore(buf)
            ELSE IF parse.status # "Complete" THEN NeedMore(buf)
            ELSE IF parse.code < 100 \/ parse.code >= 600
            THEN DecodeError("Status", buf)
            ELSE Decoded(ResponseHead(IF parse.minor = 1 THEN "HTTP_11" ELSE "HTTP_10",
                                      parse.code, HeadersFromBytes(parse.headers)),
                         SubSeq(buf, parse.len + 1, Len(buf)))
    IN  CHOOSE r \in {Parsed(parse) : parse \in {HttparseResponseHead(buf, MAX_HEADERS)}} :
            TRUE


\* The bytes sent to HttpServerCodec
\* a request with one header, followed by two bytes
HostRequest ==
    <<71, 69, 84, 32, 47, 32, 72, 84, 84, 80, 47, 49, 46, 49, 13, 10, 72,
    111, 115, 116, 58, 32, 97, 13, 10, 13, 10, 88, 89>>

\* a request without headers
BareRequest ==
    <<71, 69, 84, 32, 47, 99, 32, 72, 84, 84, 80, 47, 49, 46, 48, 13, 10,
    13, 10>>

\* two empty lines before a request
BlankLinesRequest ==
    <<13, 10, 13, 10, 71, 69, 84, 32, 47, 32, 72, 84, 84, 80, 47, 49, 46,
    49, 13, 10, 13, 10>>

\* a request whose lines end with a line feed only, followed by a frame
\* header and the next "\r\n\r\n"
LineFeedRequest ==
    <<71, 69, 84, 32, 47, 32, 72, 84, 84, 80, 47, 49, 46, 49, 10, 10, 129,
    0, 13, 10, 13, 10>>

\* a request with a misspelt version
BadVersionRequest ==
    <<71, 69, 84, 32, 47, 32, 72, 84, 80, 47, 49, 46, 49, 13, 10, 13, 10>>

\* a request with a blank in a header name
BadNameRequest ==
    <<71, 69, 84, 32, 47, 32, 72, 84, 84, 80, 47, 49, 46, 49, 13, 10, 72,
    111, 32, 115, 116, 58, 32, 97, 13, 10, 13, 10>>

\* a request that stops before its empty line
OpenRequest ==
    <<71, 69, 84, 32, 47, 32, 72, 84, 84, 80, 47, 49, 46, 49, 13, 10, 72,
    111, 115, 116, 58, 32, 97, 13, 10>>

RequestInputs ==
    {HostRequest, BareRequest, BlankLinesRequest, LineFeedRequest,
     BadVersionRequest, BadNameRequest, OpenRequest}

\* The bytes sent to HttpClientCodec
\* the response of test_client_http_codec
NotFoundResponse ==
    <<72, 84, 84, 80, 47, 49, 46, 49, 32, 52, 48, 52, 32, 78, 111, 116, 32,
    70, 111, 117, 110, 100, 13, 10, 13, 10, 112, 115, 115, 115, 116>>

\* a response with one header, followed by a frame header
SwitchingResponse ==
    <<72, 84, 84, 80, 47, 49, 46, 49, 32, 49, 48, 49, 32, 83, 119, 105, 116,
    99, 104, 105, 110, 103, 32, 80, 114, 111, 116, 111, 99, 111, 108, 115,
    13, 10, 85, 112, 103, 114, 97, 100, 101, 58, 32, 119, 101, 98, 115, 111,
    99, 107, 101, 116, 13, 10, 13, 10, 129, 0>>

\* a response with a misspelt version
BadVersionResponse ==
    <<72, 84, 80, 47, 49, 46, 49, 32, 52, 48, 52, 32, 78, 111, 116, 32, 70,
    111, 117, 110, 100, 13, 10, 13, 10>>

\* a response with a blank in a header name
BadNameResponse ==
    <<72, 84, 84, 80, 47, 49, 46, 49, 32, 52, 48, 52, 32, 78, 111, 116, 32,
    70, 111, 117, 110, 100, 13, 10, 66, 97, 100, 32, 78, 97, 109, 101, 58,
    32, 120, 13, 10, 13, 10>>

\* a response with a control byte in a header value
BadValueResponse ==
    <<72, 84, 84, 80, 47, 49, 46, 49, 32, 52, 48, 52, 32, 78, 111, 116, 32,
    70, 111, 117, 110, 100, 13, 10, 65, 58, 32, 120, 1, 121, 13, 10, 13,
    10>>

\* a response whose status line ends with a carriage return only
BadLineEndResponse ==
    <<72, 84, 84, 80, 47, 49, 46, 49, 32, 52, 48, 52, 32, 78, 111, 116, 32,
    70, 111, 117, 110, 100, 13, 88, 13, 10, 13, 10>>

\* a response with a status code below 100
LowStatusResponse ==
    <<72, 84, 84, 80, 47, 49, 46, 49, 32, 48, 57, 57, 32, 76, 111, 119, 13,
    10, 13, 10>>

\* a response that stops inside its status code
OpenResponse ==
    <<72, 84, 84, 80, 47, 49, 46, 49, 32, 52, 48>>

ResponseInputs ==
    {NotFoundResponse, SwitchingResponse, BadVersionResponse,
     BadNameResponse, BadValueResponse, BadLineEndResponse,
     LowStatusResponse, OpenResponse}

\* No handshake is going on.
HandshakeIdle ==
    /\ pc = "none"
    /\ stream = <<>>
    /\ given = NoRequest
    /\ request = NoRequest
    /\ headers = EmptyHeaderMap
    /\ buffer = NoBuffer
    /\ error = "none"
    /\ sent = NothingSent
    /\ readError = FALSE

\* A codec, the bytes its peer sends, none of them arrived.
CodecInit ==
    /\ \/ codec = "server" /\ input \in RequestInputs
       \/ codec = "client" /\ input \in ResponseInputs
    /\ wire = input
    /\ src = <<>>
    /\ decoded = NoItem
    /\ HandshakeIdle
    /\ MaskIdle
    /\ ProtocolIdle
    /\ EchoIdle

\* The framed transport reads the next arrived bytes of wire, at least one,
\* into the buffer and calls decode on it, until decode has returned a head
\* or an error.
Receive(role, arrived) ==
    /\ codec = role
    /\ decoded.kind \notin {"Some", "Err"}
    /\ \E buf \in {src \o SubSeq(wire, 1, arrived)} :
         \E result \in {IF role = "server" THEN HttpServerCodec_decode(buf)
                         ELSE HttpClientCodec_decode(buf)} :
            /\ src' = result.src
            /\ decoded' = [kind |-> result.kind, head |-> result.head,
                           error |-> result.error]
    /\ wire' = SubSeq(wire, arrived + 1, Len(wire))
    /\ UNCHANGED <<codec, input>>
    /\ UNCHANGED <<handshakeVars, maskVars, protocolVars, echoVars>>

\* Decoder::decode for HttpServerCodec, called by the framed transport after
\* a read
ServerDecode == \E arrived \in 1..Len(wire) : Receive("server", arrived)

\* Decoder::decode for HttpClientCodec, called by the framed transport after
\* a read
ClientDecode == \E arrived \in 1..Len(wire) : Receive("client", arrived)

CodecNext ==
    \/ ServerDecode
    \/ ClientDecode

CodecSpec == CodecInit /\ [][CodecNext]_vars


-----------------------------------------------------------------------------
\* ws::util::mask: masking the payload of a frame

\* u8 ^ u8
Xor8(a, b) == Xor4(a % 16, b % 16) + 16 * Xor4(a \div 16, b \div 16)

\* mask_data as it would be with the key byte added to the data byte, modulo
\* 256, in place of the exclusive or.
mask_data_added(key, bytes) ==
    [i \in 1..Len(bytes) |-> (bytes[i] + key[((i - 1) % 4) + 1]) % 256]

\* mask_data as it would be with the key taken one position further on: the
\* first byte of the data is xor-ed with the second byte of the key.
mask_data_shifted(key, bytes) ==
    [i \in 1..Len(bytes) |-> Xor8(bytes[i], key[(i % 4) + 1])]


\* mask_data: each byte of the data is xor-ed with the byte of the key at its
\* position modulo four.
mask_data(key, bytes) ==
    [i \in 1..Len(bytes) |-> Xor8(bytes[i], key[((i - 1) % 4) + 1])]

\* The longest payload drawn from MaskBytes
MaxPayloadLen == 5

\* The bytes of the payloads
MaskBytes == {0, 10, 129, 255}

\* The masking keys
MaskKeys ==
    {<<0, 0, 0, 0>>, <<1, 2, 3, 4>>, <<255, 0, 129, 16>>, <<255, 255, 255, 255>>}

\* The payload of test_mask_data, and what it expects for the key 1, 2, 3, 4
TestOriginal == <<10, 11, 12, 13, 14, 15, 16, 17>>

TestExpected == <<11, 9, 15, 9, 15, 13, 19, 21>>

\* Every sequence of MaskBytes of a length up to MaxPayloadLen, the empty one
\* included, and the payload of the test
Payloads ==
    UNION {[1..n -> MaskBytes] : n \in 0..MaxPayloadLen} \cup {TestOriginal}

\* A key and a payload, nothing masked yet.
MaskInit ==
    /\ mask \in MaskKeys
    /\ payload \in Payloads
    /\ out = [calls |-> 0, bytes |-> <<>>]
    /\ HandshakeIdle
    /\ CodecIdle
    /\ ProtocolIdle
    /\ EchoIdle

\* mask_data on the payload, then on what the call before returned.
MaskData ==
    /\ out.calls < 2
    /\ out' = [calls |-> out.calls + 1,
               bytes |-> mask_data(mask, IF out.calls = 0 THEN payload ELSE out.bytes)]
    /\ UNCHANGED <<mask, payload>>
    /\ UNCHANGED <<handshakeVars, codecVars, protocolVars, echoVars>>

MaskNext == MaskData

MaskSpec == MaskInit /\ [][MaskNext]_vars


\* Masker: the key, pos (set to 0 by Masker::new and used by no method) and
\* the endpoint, with the bytes the endpoint has accepted.
MaskerInit ==
    /\ mask \in MaskKeys
    /\ payload \in Payloads
    /\ out = [calls |-> 0, bytes |-> <<>>, pos |-> 0]
    /\ HandshakeIdle
    /\ CodecIdle
    /\ ProtocolIdle
    /\ EchoIdle

\* Write for Masker::write: the caller passes the next len bytes of the
\* payload that the endpoint has not accepted yet, write masks them with
\* mask_data and passes them to the endpoint, which accepts the first
\* accepted of them; write returns that number.
MaskerWrite ==
    /\ Len(out.bytes) < Len(payload)
    /\ \E len \in 1..(Len(payload) - Len(out.bytes)) :
         \E accepted \in 1..len :
            \E buf \in {mask_data(mask, SubSeq(payload, Len(out.bytes) + 1,
                                               Len(out.bytes) + len))} :
               out' = [calls |-> out.calls + 1,
                       bytes |-> out.bytes \o SubSeq(buf, 1, accepted),
                       pos |-> out.pos]
    /\ UNCHANGED <<mask, payload>>
    /\ UNCHANGED <<handshakeVars, codecVars, protocolVars, echoVars>>

MaskerNext == MaskerWrite

MaskerSpec == MaskerInit /\ [][MaskerNext]_vars


\* The width of the SIMD vector, in bytes
SIMD_VECTOR_SIZE == 32

\* The SIMD mask_data as it would be without the padding of the last block:
\* only the whole blocks are masked, the bytes after them are stored as zero.
mask_data_simd_whole_blocks(key, bytes) ==
    LET whole == SIMD_VECTOR_SIZE * (Len(bytes) \div SIMD_VECTOR_SIZE)
    IN  [p \in 1..Len(bytes) |->
            IF p <= whole THEN Xor8(bytes[p], key[((p - 1) % 4) + 1]) ELSE 0]

\* mask_data with the nightly feature: out gets room for whole blocks of 32
\* bytes, the key is repeated to fill one vector, each block of the data
\* (the last one filled up with zeros) is xor-ed with it and stored, and out
\* is cut to the length of the data.
mask_data_simd(key, bytes) ==
    LET original_len == Len(bytes)
        whole == SIMD_VECTOR_SIZE * (original_len \div SIMD_VECTOR_SIZE)
        aligned_len == IF whole < original_len THEN whole + SIMD_VECTOR_SIZE
                       ELSE whole
        mask_vec == [j \in 1..SIMD_VECTOR_SIZE |-> key[((j - 1) % 4) + 1]]
        vec2(c) == [j \in 1..SIMD_VECTOR_SIZE |->
                       IF SIMD_VECTOR_SIZE * c + j <= original_len
                       THEN bytes[SIMD_VECTOR_SIZE * c + j] ELSE 0]
        vec3(c) == [j \in 1..SIMD_VECTOR_SIZE |-> Xor8(mask_vec[j], vec2(c)[j])]
        blocks == [c \in 0..((aligned_len \div SIMD_VECTOR_SIZE) - 1) |-> vec3(c)]
        stored == [p \in 1..aligned_len |->
                      blocks[(p - 1) \div SIMD_VECTOR_SIZE]
                            [((p - 1) % SIMD_VECTOR_SIZE) + 1]]
    IN  SubSeq(stored, 1, original_len)

\* The longest payload given to the SIMD mask_data
MaxSimdLen == 70

\* The payloads given to the SIMD mask_data: one of every length up to
\* MaxSimdLen for each of two byte patterns
SimdPayloads ==
    {[i \in 1..n |-> (i * 37 + seed) % 256] : n \in 0..MaxSimdLen, seed \in {0, 200}}

\* A key and a payload, nothing masked yet.
SimdInit ==
    /\ mask \in MaskKeys
    /\ payload \in SimdPayloads
    /\ out = [calls |-> 0, bytes |-> <<>>]
    /\ HandshakeIdle
    /\ CodecIdle
    /\ ProtocolIdle
    /\ EchoIdle

\* mask_data of the nightly build on the payload.
SimdMaskData ==
    /\ out.calls = 0
    /\ out' = [calls |-> 1, bytes |-> mask_data_simd(mask, payload)]
    /\ UNCHANGED <<mask, payload>>
    /\ UNCHANGED <<handshakeVars, codecVars, protocolVars, echoVars>>

SimdNext == SimdMaskData

SimdSpec == SimdInit /\ [][SimdNext]_vars


-----------------------------------------------------------------------------
\* The Sec-WebSocket-Protocol header

\* FromStr for WebSocketProtocol: the text is split at each comma and every
\* piece is trimmed; empty pieces are kept.
WebSocketProtocol_from_str(s) ==
    LET pieces == Split(s, 44)
    IN  [i \in 1..Len(pieces) |-> Trim(pieces[i])]

\* From<WebSocketProtocol> for HeaderValue: the names joined by ", ".
WebSocketProtocol_into_header(protocol) == Join(protocol, <<44, 32>>)

\* Display for WebSocketProtocol: fmt returns Ok(()) and writes nothing.
WebSocketProtocol_fmt(protocol) == <<>>

\* The longest protocol list
MaxProtocols == 3

\* "foo", "bar", "chat"
ProtocolNames == {<<102, 111, 111>>, <<98, 97, 114>>, <<99, 104, 97, 116>>}

\* Every list of up to MaxProtocols names, the empty list included
WebSocketProtocols == UNION {[1..n -> ProtocolNames] : n \in 0..MaxProtocols}

\* A protocol list, nothing written yet.
ProtocolInit ==
    /\ wsProtocol \in WebSocketProtocols
    /\ rendered = NothingRendered
    /\ HandshakeIdle
    /\ CodecIdle
    /\ MaskIdle
    /\ EchoIdle

\* format!("{}", protocol)
ProtocolDisplay ==
    /\ ~rendered.display.done
    /\ rendered' = [rendered EXCEPT !.display = Rendered(WebSocketProtocol_fmt(wsProtocol))]
    /\ UNCHANGED wsProtocol
    /\ UNCHANGED <<handshakeVars, codecVars, maskVars, echoVars>>

\* HeaderValue::from(protocol)
ProtocolIntoHeader ==
    /\ ~rendered.header.done
    /\ rendered' =
          [rendered EXCEPT !.header = Rendered(WebSocketProtocol_into_header(wsProtocol))]
    /\ UNCHANGED wsProtocol
    /\ UNCHANGED <<handshakeVars, codecVars, maskVars, echoVars>>

\* WebSocketProtocol::from_str on the text of the header value
ProtocolFromStr ==
    /\ rendered.header.done
    /\ ~rendered.parsed.done
    /\ rendered' =
          [rendered EXCEPT
              !.parsed = Rendered(WebSocketProtocol_from_str(rendered.header.value))]
    /\ UNCHANGED wsProtocol
    /\ UNCHANGED <<handshakeVars, codecVars, maskVars, echoVars>>

ProtocolNext ==
    \/ ProtocolDisplay
    \/ ProtocolIntoHeader
    \/ ProtocolFromStr

ProtocolSpec == ProtocolInit /\ [][ProtocolNext]_vars


-----------------------------------------------------------------------------
\* The response head as bytes

\* A number below 1000 in decimal digits, as {} writes a u16.
Decimal(n) ==
    IF n < 10 THEN <<48 + n>>
    ELSE IF n < 100 THEN <<48 + (n \div 10), 48 + (n % 10)>>
    ELSE <<48 + (n \div 100), 48 + ((n \div 10) % 10), 48 + (n % 10)>>

\* A byte in lower-case hexadecimal without padding, as {:x} writes it.
LowerHex(b) ==
    LET digit(d) == IF d < 10 THEN 48 + d ELSE 87 + d
    IN  IF b < 16 THEN <<digit(b)>> ELSE <<digit(b \div 16), digit(b % 16)>>

\* StatusCode::canonical_reason for the two statuses the handshake sends:
\* "Switching Protocols", "Bad Request"; "<unknown status code>" stands for
\* a status without a reason.
CanonicalReason(status) ==
    IF status = 101
    THEN <<83, 119, 105, 116, 99, 104, 105, 110, 103, 32, 80, 114, 111, 116, 111, 99,
           111, 108, 115>>
    ELSE IF status = 400
    THEN <<66, 97, 100, 32, 82, 101, 113, 117, 101, 115, 116>>
    ELSE <<60, 117, 110, 107, 110, 111, 119, 110, 32, 115, 116, 97, 116, 117, 115, 32,
           99, 111, 100, 101, 62>>

\* Display for StatusCode: the number, a space and the canonical reason.
StatusCode_fmt(status) == Decimal(status) \o <<32>> \o CanonicalReason(status)

\* write_headers: "name: value\r\n" for every value of the map.
write_headers(hdrs) ==
    LET pairs == HeaderPairs(hdrs)
        lines[i \in 0..Len(pairs)] ==
            IF i = 0 THEN <<>>
            ELSE lines[i - 1] \o pairs[i][1] \o <<58, 32>> \o pairs[i][2] \o CRLF
    IN  lines[Len(pairs)]

\* HttpServerCodec::encode: the status line, the header lines and the empty
\* line.
HttpServerCodec_encode(item) ==
    Version_fmt(item.version) \o <<32>> \o StatusCode_fmt(item.status) \o CRLF
        \o write_headers(item.headers) \o CRLF

\* Debug for HeaderValue: the bytes between double quotes, a double quote
\* written as \" and a byte that is not visible ASCII as \x and its
\* hexadecimal digits.
HeaderValue_debug(v) ==
    LET piece(b) ==
            IF b = 34 THEN <<92, 34>>
            ELSE IF (b >= 32 /\ b < 127) \/ b = 9 THEN <<b>>
            ELSE <<92, 120>> \o LowerHex(b)
        escaped[i \in 0..Len(v)] ==
            IF i = 0 THEN <<>> ELSE escaped[i - 1] \o piece(v[i])
    IN  <<34>> \o escaped[Len(v)] \o <<34>>

\* Debug for HeaderMap (Formatter::debug_map over iter()): the entries as
\* "name": "value", separated by ", ", between braces.
HeaderMap_debug(hdrs) ==
    LET pairs == HeaderPairs(hdrs)
        entry(i) == <<34>> \o pairs[i][1] \o <<34, 58, 32>> \o HeaderValue_debug(pairs[i][2])
        entries[i \in 0..Len(pairs)] ==
            IF i = 0 THEN <<>>
            ELSE IF i = 1 THEN entry(1)
            ELSE entries[i - 1] \o <<44, 32>> \o entry(i)
    IN  <<123>> \o entries[Len(pairs)] \o <<125>>

\* WsUpgrade::send: the bytes of the writes that went through.  The first
\* write is "{:?} {}\r\n" of the request's version and the status, the second
\* "{:?}\r\n" of the response headers.
WsUpgrade_send_bytes(s) ==
    IF s.wrote = 0 THEN <<>>
    ELSE Version_fmt(s.version) \o <<32>> \o StatusCode_fmt(s.status) \o CRLF
            \o (IF s.wrote = 1 THEN <<>> ELSE HeaderMap_debug(s.headers) \o CRLF)


-----------------------------------------------------------------------------
\* The echo examples (examples/async-autobahn-server.rs, async-server.rs,
\* async-autobahn-client.rs)
\*
\* The servers run stream.take_while(not close).filter_map(reply)
\* .forward(sink) and then sink.send(Close(None)); the client takes one
\* message at a time and sends its reply before it takes the next.  Forward
\* (futures 0.1) gives each item to the sink with start_send, keeps it in
\* `buffered` while the sink does not take it, and calls sink.close() when the
\* stream has ended, before it returns the sink.

\* OwnedMessage
Message(kind, body) == [kind |-> kind, body |-> body]

\* OwnedMessage::Close(None)
CloseNone == Message("Close", <<>>)

\* What the stream yields in place of a message when reading fails.
StreamError == Message("Err", <<>>)

\* Message::text("Hello World!"), the greeting of async-server.rs
HelloWorld ==
    Message("Text", <<72, 101, 108, 108, 111, 32, 87, 111, 114, 108, 100, 33>>)

\* OwnedMessage::is_close
is_close(m) == m.kind = "Close"

\* The closure given to filter_map with Pong answered like a data message;
\* the servers do not do this.
filter_map_pong_echoed(m) ==
    IF m.kind = "Ping" THEN <<Message("Pong", m.body)>> ELSE <<m>>

\* The closure given to filter_map: a Ping is answered by a Pong with its
\* payload, a Pong by nothing, any other message by itself.
filter_map(m) ==
    IF m.kind = "Ping" THEN <<Message("Pong", m.body)>>
    ELSE IF m.kind = "Pong" THEN <<>>
    ELSE <<m>>

\* The match of the client's loop: what it sends for a message it took.
client_reply(m) ==
    IF m.kind = "Text" THEN <<Message("Text", m.body)>>
    ELSE IF m.kind = "Binary" THEN <<Message("Binary", m.body)>>
    ELSE IF m.kind = "Ping" THEN <<Message("Pong", m.body)>>
    ELSE IF m.kind = "Pong" THEN <<>>
    ELSE <<CloseNone>>

\* The most messages the peer sends
MaxInbound == 3

\* The messages the peer sends: Text("hi"), Binary([0, 255]), Ping([1]),
\* Pong([1]), Close(None), Close with the code 1000
PeerMessages ==
    {Message("Text", <<104, 105>>), Message("Binary", <<0, 255>>),
     Message("Ping", <<1>>), Message("Pong", <<1>>), CloseNone,
     Message("Close", <<3, 232>>)}

\* What the endpoint's stream will yield: up to MaxInbound messages and then
\* the end of the stream, or fewer messages and then an error.
Inbounds ==
    UNION {[1..n -> PeerMessages] : n \in 0..MaxInbound}
    \cup {Append(s, StreamError) :
            s \in UNION {[1..n -> PeerMessages] : n \in 0..(MaxInbound - 1)}}

Endpoints == {"autobahn-server", "server", "autobahn-client"}

\* The connection is open: upgrade.accept() or async_connect_insecure has
\* completed, and nothing has been taken from the stream.
EchoInit ==
    /\ endpoint \in Endpoints
    /\ inbound \in Inbounds
    /\ received = <<>>
    /\ buffered = <<>>
    /\ written = <<>>
    /\ sinkClosed = FALSE
    /\ task = IF endpoint = "server" THEN "greeting" ELSE "echo"
    /\ HandshakeIdle
    /\ CodecIdle
    /\ MaskIdle
    /\ ProtocolIdle

\* async-server.rs: s.send(Message::text("Hello World!").into()); the send
\* completes or fails.
Greeting ==
    /\ task = "greeting"
    /\ \/ written' = Append(written, HelloWorld) /\ task' = "echo"
       \/ written' = written /\ task' = "failed"
    /\ UNCHANGED <<endpoint, inbound, received, buffered, sinkClosed>>
    /\ UNCHANGED <<handshakeVars, codecVars, maskVars, protocolVars>>

\* The servers' Forward with nothing buffered: it polls the stream.  An error
\* fails the future.  A Close ends the stream (take_while), and so does the
\* end of the transport: Forward closes the sink and returns it.  A message
\* that filter_map maps to nothing is skipped.  Any other reply is given
\* to the sink, which takes it, or is not ready (the reply is buffered), or
\* fails.
ForwardPoll ==
    /\ endpoint \in {"autobahn-server", "server"}
    /\ task = "echo"
    /\ buffered = <<>>
    /\ IF inbound = <<>> \/ is_close(Head(inbound))
       THEN /\ received' = IF inbound = <<>> THEN received
                           ELSE Append(received, Head(inbound))
            /\ inbound' = IF inbound = <<>> THEN inbound ELSE Tail(inbound)
            /\ \/ sinkClosed' = TRUE /\ task' = "closing"
               \/ sinkClosed' = sinkClosed /\ task' = "failed"
            /\ UNCHANGED <<buffered, written>>
       ELSE IF Head(inbound) = StreamError
       THEN /\ inbound' = Tail(inbound)
            /\ task' = "failed"
            /\ UNCHANGED <<received, buffered, written, sinkClosed>>
       ELSE /\ received' = Append(received, Head(inbound))
            /\ inbound' = Tail(inbound)
            /\ \E reply \in {filter_map(Head(inbound))} :
                  IF reply = <<>>
                  THEN UNCHANGED <<buffered, written, task>>
                  ELSE \/ written' = written \o reply /\ UNCHANGED <<buffered, task>>
                       \/ buffered' = reply /\ UNCHANGED <<written, task>>
                       \/ task' = "failed" /\ UNCHANGED <<buffered, written>>
            /\ UNCHANGED sinkClosed
    /\ UNCHANGED endpoint
    /\ UNCHANGED <<handshakeVars, codecVars, maskVars, protocolVars>>

\* The servers' Forward with an item buffered: it gives the item to the sink
\* before anything else; the sink takes it or fails.
ForwardBuffered ==
    /\ endpoint \in {"autobahn-server", "server"}
    /\ task = "echo"
    /\ buffered # <<>>
    /\ \/ written' = written \o buffered /\ buffered' = <<>> /\ task' = task
       \/ written' = written /\ buffered' = buffered /\ task' = "failed"
    /\ UNCHANGED <<endpoint, inbound, received, sinkClosed>>
    /\ UNCHANGED <<handshakeVars, codecVars, maskVars, protocolVars>>

\* The servers' and_then after forward: sink.send(OwnedMessage::Close(None))
\* on the sink Forward returned; the transport takes the message or the
\* send fails.
SendClose ==
    /\ endpoint \in {"autobahn-server", "server"}
    /\ task = "closing"
    /\ \/ written' = Append(written, CloseNone) /\ task' = "done"
       \/ written' = written /\ task' = "failed"
    /\ UNCHANGED <<endpoint, inbound, received, buffered, sinkClosed>>
    /\ UNCHANGED <<handshakeVars, codecVars, maskVars, protocolVars>>

\* One turn of the client's loop_fn: stream.into_future(), then the reply.
\* On an error it sends Close(None) and leaves the loop; at the end of the
\* stream it leaves the loop; on a Close it sends Close(None) and leaves the
\* loop; otherwise it sends the reply, if there is one, and goes on.  Leaving
\* the loop drops the stream.  Each send completes or fails.
ClientLoop ==
    /\ endpoint = "autobahn-client"
    /\ task = "echo"
    /\ IF inbound = <<>>
       THEN /\ task' = "done"
            /\ sinkClosed' = TRUE
            /\ UNCHANGED <<inbound, received, written>>
       ELSE IF Head(inbound) = StreamError
       THEN /\ inbound' = Tail(inbound)
            /\ \/ written' = Append(written, CloseNone) /\ task' = "done"
               \/ written' = written /\ task' = "failed"
            /\ sinkClosed' = TRUE
            /\ UNCHANGED received
       ELSE /\ received' = Append(received, Head(inbound))
            /\ inbound' = Tail(inbound)
            /\ \E reply \in {client_reply(Head(inbound))} :
                  \/ /\ written' = written \o reply
                     /\ task' = IF is_close(Head(inbound)) THEN "done" ELSE "echo"
                     /\ sinkClosed' = is_close(Head(inbound))
                  \/ /\ reply # <<>>
                     /\ written' = written
                     /\ task' = "failed"
                     /\ sinkClosed' = TRUE
    /\ UNCHANGED <<endpoint, buffered>>
    /\ UNCHANGED <<handshakeVars, codecVars, maskVars, protocolVars>>

EchoNext ==
    \/ Greeting
    \/ ForwardPoll
    \/ ForwardBuffered
    \/ SendClose
    \/ ClientLoop

EchoSpec == EchoInit /\ [][EchoNext]_vars


-----------------------------------------------------------------------------
\* The handshake's results

\* The kinds of HyperIntoWsError validate returns.
ValidateErrors ==
    {"MethodNotGet", "UnsupportedHttpVersion", "UnsupportedWebsocketVersion",
     "NoSecWsKeyHeader", "NoWsUpgradeHeader", "NoUpgradeHeader",
     "NoWsConnectionHeader", "NoConnectionHeader"}

\* "s3pPLMBiTxaQ9kYGzzhZRbK+xOo=", the accept token of the sample key
SampleAccept ==
    <<115, 51, 112, 80, 76, 77, 66, 105, 84, 120, 97, 81, 57, 107, 89, 71,
      122, 122, 104, 90, 82, 98, 75, 43, 120, 79, 111, 61>>

-----------------------------------------------------------------------------
\* The claims. In them, validate has run on the head given with the stream
\* when given # NoRequest and pc # "start"; error then holds its result
\* ("none" for Ok).

\* C1: when the bytes on a stream are a complete valid upgrade request,
\* into_ws on the stream returns an Upgrade whose request head holds the
\* request's headers, and accept on that Upgrade sends a 101 response that
\* carries the Sec-WebSocket-Accept computed from the key.
C1_StreamUpgradeThenAccept ==
    [][LET text == HttpClientCodec_encode(SampleRequest)
           valid == Len(stream) >= Len(text) /\ SubSeq(stream, 1, Len(text)) = text
       IN  /\ (pc = "start" /\ given = NoRequest /\ valid)
                => (pc' = "upgrade" /\ request'.headers = SampleRequest.headers)
           /\ (pc = "upgrade" /\ buffer.some /\ Accept)
                => /\ sent'.wrote > 0 => sent'.status = 101
                   /\ sent'.wrote = 2
                        => HeaderGetAll(sent'.headers, SEC_WEBSOCKET_ACCEPT)
                            = <<SampleAccept>>
      ]_vars

\* C2: validate returns the error of the first rule the request violates, in
\* the order method, HTTP version (1.1 at least), Sec-WebSocket-Version (13),
\* Sec-WebSocket-Key (NoSecWsKeyHeader: the header is there), Upgrade (an
\* element names websocket), Connection (an element is Upgrade); a method
\* other than GET gives MethodNotGet whatever the version and the headers are.
C2_FirstViolatedRuleReported ==
    LET wsversion == HeaderGet(given.headers, SEC_WEBSOCKET_VERSION)
        upgrade == HeaderGet(given.headers, UPGRADE)
        connection == HeaderGet(given.headers, CONNECTION)
        elements(value) == {Trim(Split(value, 44)[i]) : i \in 1..Len(Split(value, 44))}
        name(e) == IF IndexFrom(e, 1, {47}) = 0 THEN e
                   ELSE SubSeq(e, 1, IndexFrom(e, 1, {47}) - 1)
        first ==
            IF given.method # "GET" THEN "MethodNotGet"
            ELSE IF given.version \in {"HTTP_09", "HTTP_10"} THEN "UnsupportedHttpVersion"
            ELSE IF wsversion = NoValue \/ Trim(wsversion) # THIRTEEN
            THEN "UnsupportedWebsocketVersion"
            ELSE IF HeaderGet(given.headers, SEC_WEBSOCKET_KEY) = NoValue
            THEN "NoSecWsKeyHeader"
            ELSE IF upgrade = NoValue THEN "NoUpgradeHeader"
            ELSE IF \A e \in elements(upgrade) : ~EqAscii(name(e), WEBSOCKET)
            THEN "NoWsUpgradeHeader"
            ELSE IF connection = NoValue THEN "NoConnectionHeader"
            ELSE IF \A e \in elements(connection) : ~EqAscii(e, UPGRADE_TOKEN)
            THEN "NoWsConnectionHeader"
            ELSE "none"
    IN  (given # NoRequest /\ pc # "start" /\ first # "none") => error = first

\* C3: validate is total: on every method, version and header map it returns
\* Ok or one kind of HyperIntoWsError, and never panics.
C3_ValidateTotal ==
    (given # NoRequest /\ pc # "start") => error \in ValidateErrors \cup {"none"}

\* C4: validate rejects every request whose Sec-WebSocket-Key is present but
\* does not decode from base64 to exactly 16 bytes.
C4_KeyMustDecodeTo16Bytes ==
    (/\ given # NoRequest /\ pc # "start"
     /\ HeaderGet(given.headers, SEC_WEBSOCKET_KEY) # NoValue
     /\ ~WebSocketKey_from_str(HeaderGet(given.headers, SEC_WEBSOCKET_KEY)).ok)
        => error # "none"

\* C5: validate rejects with UnsupportedHttpVersion every GET request whose
\* HTTP version is HTTP/0.9 or HTTP/1.0, whatever its headers are.
C5_LowHttpVersionRejected ==
    (/\ given # NoRequest /\ pc # "start"
     /\ given.method = "GET"
     /\ given.version \in {"HTTP_09", "HTTP_10"})
        => error = "UnsupportedHttpVersion"

\* C6: a GET HTTP/1.1 request with no Sec-WebSocket-Version header, or with a
\* value other than 13, is rejected with UnsupportedWebsocketVersion.
C6_VersionHeaderRequired ==
    (/\ given # NoRequest /\ pc # "start"
     /\ given.method = "GET"
     /\ given.version = "HTTP_11"
     /\ \/ HeaderGet(given.headers, SEC_WEBSOCKET_VERSION) = NoValue
        \/ Trim(HeaderGet(given.headers, SEC_WEBSOCKET_VERSION)) # THIRTEEN)
        => error = "UnsupportedWebsocketVersion"

\* C7: on a request that passes the rules before it (GET, HTTP/1.1, version
\* 13, the sample key), validate passes the Upgrade rule exactly when some
\* comma-separated element of the Upgrade header names websocket, compared
\* without case, with or without a /version; a missing header gives
\* NoUpgradeHeader, a header without the token NoWsUpgradeHeader.
C7_UpgradeRule ==
    LET upgrade == HeaderGet(given.headers, UPGRADE)
        elements == {Trim(Split(upgrade, 44)[i]) : i \in 1..Len(Split(upgrade, 44))}
        name(e) == IF IndexFrom(e, 1, {47}) = 0 THEN e
                   ELSE SubSeq(e, 1, IndexFrom(e, 1, {47}) - 1)
    IN  (/\ given # NoRequest /\ pc # "start"
         /\ given.method = "GET"
         /\ given.version = "HTTP_11"
         /\ HeaderGet(given.headers, SEC_WEBSOCKET_VERSION) = THIRTEEN
         /\ HeaderGet(given.headers, SEC_WEBSOCKET_KEY) = SampleKey)
            => IF upgrade = NoValue THEN error = "NoUpgradeHeader"
               ELSE IF \A e \in elements : ~EqAscii(name(e), WEBSOCKET)
               THEN error = "NoWsUpgradeHeader"
               ELSE error \in {"none", "NoConnectionHeader", "NoWsConnectionHeader"}

\* C8: on a request that passes the rules before it (GET, HTTP/1.1, version
\* 13, the sample key, Upgrade: websocket), validate passes the Connection
\* rule exactly when some comma-separated element of the Connection header
\* equals Upgrade, compared without case, also beside keep-alive or close; a
\* missing header gives NoConnectionHeader, a header without the token
\* NoWsConnectionHeader.
C8_ConnectionRule ==
    LET connection == HeaderGet(given.headers, CONNECTION)
        elements == {Trim(Split(connection, 44)[i]) : i \in 1..Len(Split(connection, 44))}
    IN  (/\ given # NoRequest /\ pc # "start"
         /\ given.method = "GET"
         /\ given.version = "HTTP_11"
         /\ HeaderGet(given.headers, SEC_WEBSOCKET_VERSION) = THIRTEEN
         /\ HeaderGet(given.headers, SEC_WEBSOCKET_KEY) = SampleKey
         /\ HeaderGet(given.headers, UPGRADE) = WEBSOCKET)
            => IF connection = NoValue THEN error = "NoConnectionHeader"
               ELSE IF \A e \in elements : ~EqAscii(e, UPGRADE_TOKEN)
               THEN error = "NoWsConnectionHeader"
               ELSE error = "none"

\* C9: for a validated request, prepare_headers returns 101 and leaves in the
\* response headers Upgrade: websocket, Connection: Upgrade and the
\* Sec-WebSocket-Accept of the request's key; the headers set before
\* (use_protocols) are still there, and so are the custom headers passed in.
C9_PrepareHeaders ==
    [][LET Holds(h, name, value) ==
                \E i \in 1..Len(h) :
                    h[i].name = name /\ \E j \in 1..Len(h[i].values) : h[i].values[j] = value
       IN  \A custom \in {None} \cup {Some(m) : m \in CustomHeaderMaps} :
            internal_accept(custom)
                => /\ pc' # "panicked"
                   /\ sent'.wrote > 0 => sent'.status = 101
                   /\ Holds(headers', UPGRADE, WEBSOCKET)
                   /\ Holds(headers', CONNECTION, UPGRADE_TOKEN)
                   /\ SEC_WEBSOCKET_ACCEPT \in {headers'[i].name : i \in 1..Len(headers')}
                   /\ HeaderGet(request.headers, SEC_WEBSOCKET_KEY) = SampleKey
                        => Holds(headers', SEC_WEBSOCKET_ACCEPT, SampleAccept)
                   /\ \A i \in 1..Len(headers) :
                        headers[i].name \in {headers'[k].name : k \in 1..Len(headers')}
                   /\ \A i \in 1..Len(custom.map) :
                        Holds(headers', custom.map[i].name, custom.map[i].values[1])
      ]_vars

\* C10: required headers win on collision: the response accept_with sends
\* carries under Upgrade, Connection and Sec-WebSocket-Accept only the required
\* value (websocket, Upgrade, the accept token), not the caller's, not both.
C10_RequiredHeadersWin ==
    (pc = "client" /\ HeaderGet(request.headers, SEC_WEBSOCKET_KEY) = SampleKey)
        => /\ HeaderGetAll(sent.headers, UPGRADE) = <<WEBSOCKET>>
           /\ HeaderGetAll(sent.headers, CONNECTION) = <<UPGRADE_TOKEN>>
           /\ HeaderGetAll(sent.headers, SEC_WEBSOCKET_ACCEPT) = <<SampleAccept>>

\* C11: the accept token is computed over the Sec-WebSocket-Key text as the
\* client sent it: for every key the server accepts, WebSocketKey::from_str
\* followed by Display gives back the header text, so that the text hashed is
\* the header text followed by the GUID.
C11_KeyTextHashedVerbatim ==
    pc = "client"
        => LET key == HeaderGet(request.headers, SEC_WEBSOCKET_KEY)
           IN  WebSocketKey_fmt(WebSocketKey_from_str(key).bytes) = key

\* C12: the accept token is base64(SHA-1(key text followed by the GUID)): for
\* the key dGhlIHNhbXBsZSBub25jZQ== the token WebSocketAccept::new gives, the
\* last value prepare_headers adds under Sec-WebSocket-Accept, is
\* s3pPLMBiTxaQ9kYGzzhZRbK+xOo=.
C12_SampleAcceptToken ==
    (pc = "client" /\ HeaderGet(request.headers, SEC_WEBSOCKET_KEY) = SampleKey)
        => LET tokens == HeaderGetAll(headers, SEC_WEBSOCKET_ACCEPT)
           IN  tokens # <<>> /\ tokens[Len(tokens)] = SampleAccept

\* C12 witness: accept on a request with the sample key has sent the token.
C12_Witness ==
    /\ pc = "client"
    /\ HeaderGet(request.headers, SEC_WEBSOCKET_KEY) = SampleKey
    /\ HeaderGetAll(sent.headers, SEC_WEBSOCKET_ACCEPT) = <<SampleAccept>>

\* C13: reject and reject_with never produce a connection, and the response
\* they send has status 400, carries every header the caller supplied with
\* the caller's values, and carries under Sec-WebSocket-Accept only what the
\* caller supplied: no accept token is computed.
C13_RejectResponse ==
    [][\A custom \in {None} \cup {Some(c) : c \in CustomHeaderMaps} :
          internal_reject(custom)
              => /\ pc' \in {"rejected", "ioerror"}
                 /\ pc' = "rejected"
                      => /\ sent'.status = 400
                         /\ \A i \in 1..Len(custom.map) :
                              HeaderGetAll(sent'.headers, custom.map[i].name)
                                  = custom.map[i].values
                         /\ HeaderGetAll(sent'.headers, SEC_WEBSOCKET_ACCEPT)
                              = HeaderGetAll(custom.map, SEC_WEBSOCKET_ACCEPT)]_vars

\* C13 witness: reject_with has sent 400 with the caller's x-custom header, on
\* a request whose key accept would have answered with a token.
C13_Witness ==
    /\ pc = "rejected"
    /\ sent.status = 400
    /\ HeaderGet(sent.headers, <<120, 45, 99, 117, 115, 116, 111, 109>>) = <<49>>
    /\ HeaderGet(request.headers, SEC_WEBSOCKET_KEY) = SampleKey


\* C13 as stated: the response a successful reject has sent has status 400
\* and no Sec-WebSocket-Accept header at all.
C13_NoAcceptHeaderAtAll ==
    pc = "rejected"
        => /\ sent.status = 400
           /\ ~HeaderContains(sent.headers, SEC_WEBSOCKET_ACCEPT)

\* C14: request parsing is restartable: on every call of
\* HttpServerCodec::decode, a buffer without "\r\n\r\n" gives NeedMore, a call
\* that returns NeedMore leaves the buffer as it was given, and a head
\* returned after any chunks is the head decode returns for the whole input
\* in one piece.
C14_RequestParsingRestartable ==
    [][codec = "server"
          => LET buf == src \o SubSeq(wire, 1, Len(wire) - Len(wire'))
                 whole == HttpServerCodec_decode(input)
             IN  /\ HeadEndPosition(buf) = 0 => decoded'.kind = "NeedMore"
                 /\ decoded'.kind = "NeedMore" => src' = buf
                 /\ decoded'.kind = "Some"
                      => whole.kind = "Some" /\ decoded'.head = whole.head]_vars


\* C15: a decode that returns a head (HttpServerCodec on a request,
\* HttpClientCodec on a response) removes from the buffer exactly the head,
\* up to and including the empty line that ends it: the buffer is left with
\* the bytes that followed the head, unchanged and in order.
C15_DecodeRemovesExactlyTheHead ==
    [][decoded'.kind = "Some"
          => LET buf == src \o SubSeq(wire, 1, Len(wire) - Len(wire'))
                 len == IF codec = "server"
                        THEN HttparseRequestHead(buf, MAX_HEADERS).len
                        ELSE HttparseResponseHead(buf, MAX_HEADERS).len
             IN  src' = SubSeq(buf, len + 1, Len(buf))]_vars


\* C16: HttpClientCodec::decode returns NeedMore only when the buffer is a
\* well-formed, still incomplete beginning of a response head: once the
\* buffer holds a malformed head (httparse reports an error on it), decode
\* returns an error.
C16_MalformedResponseIsAnError ==
    [][codec = "client"
          => LET buf == src \o SubSeq(wire, 1, Len(wire) - Len(wire'))
                 parse == HttparseResponseHead(buf, MAX_HEADERS)
             IN  /\ parse.status \notin {"Complete", "Partial"}
                      => decoded'.kind = "Err"
                 /\ decoded'.kind = "NeedMore" => parse.status = "Partial"]_vars


\* C17: no byte is lost between handshake and connection: the bytes into_ws
\* has taken from the stream beyond the request line it parsed are the valid
\* slice buf[pos..cap] of the Buffer it returns, with pos <= cap <= buf.len().
C17_NoByteLost ==
    [][(pc = "start" /\ given = NoRequest /\ ~readError /\ pc' # "start")
          => LET taken == Len(stream) - Len(stream')
                 beyond == SubSeq(stream, Len(ReadLine(stream)) + 1, taken)
                 valid == IF buffer'.some
                          THEN SubSeq(buffer'.buf, buffer'.pos + 1, buffer'.cap)
                          ELSE <<>>
             IN  /\ buffer'.pos <= buffer'.cap
                 /\ buffer'.cap <= Len(buffer'.buf)
                 /\ valid = beyond]_vars


\* C18: no outcome of the synchronous handshake loses the stream: somebody
\* holds it in every state, the caller does after a failed into_ws, a failed
\* write and a reject, and a failed into_ws on a pair returns the request
\* head with it.
C18_StreamNeverLost ==
    /\ StreamHolder # "nobody"
    /\ pc \in {"failed", "rejected", "ioerror"} => StreamHolder = "caller"
    /\ (pc = "failed" /\ given # NoRequest) => request = given


\* C19: a transport failure while into_ws reads the request from the stream
\* surfaces as the I/O error: into_ws returns HyperIntoWsError::Io, not an
\* HTTP parse error.
C19_ReadErrorSurfacesAsIo ==
    (readError /\ given = NoRequest /\ pc # "start")
        => pc = "failed" /\ error = "Io"


\* C20: mask involution: for every 4-byte key k and every byte sequence d,
\* the empty one included, mask_data(k, mask_data(k, d)) = d; after one call
\* the result has the length of d, and for the payload and key of
\* test_mask_data it is what the test expects.
C20_MaskInvolution ==
    /\ out.calls = 2 => out.bytes = payload
    /\ out.calls = 1 => Len(out.bytes) = Len(payload)
    /\ (out.calls = 1 /\ payload = TestOriginal /\ mask = <<1, 2, 3, 4>>)
          => out.bytes = TestExpected

\* C20 witness: a payload longer than the key has been masked twice with a
\* key that changes every byte of it.
C20_Witness ==
    /\ out.calls = 2
    /\ Len(payload) > 4
    /\ mask = <<1, 2, 3, 4>>
    /\ out.bytes = payload
    /\ \A i \in 1..Len(payload) : mask_data(mask, payload)[i] # payload[i]


\* C21: mask_data(k, d) has the length of d and its i-th byte is d[i] XOR
\* k[i mod 4], bit by bit; an empty d gives an empty result and the key
\* 0, 0, 0, 0 returns d unchanged.
C21_MaskPointwise ==
    out.calls = 1
        => /\ Len(out.bytes) = Len(payload)
           /\ \A i \in 1..Len(payload) : \A bit \in {1, 2, 4, 8, 16, 32, 64, 128} :
                 (out.bytes[i] \div bit) % 2
                     = ((payload[i] \div bit) + (mask[((i - 1) % 4) + 1] \div bit)) % 2
           /\ payload = <<>> => out.bytes = <<>>
           /\ mask = <<0, 0, 0, 0>> => out.bytes = payload

\* C21 witness: a payload longer than the key has been masked once with a
\* key that changes it.
C21_Witness ==
    /\ out.calls = 1
    /\ Len(payload) > 4
    /\ mask = <<255, 0, 129, 16>>
    /\ out.bytes # payload


\* C22: masking is streaming: once a payload has gone through one Masker, in
\* whatever write calls and with whatever part of each write the endpoint
\* accepted, the endpoint holds mask_data(key, whole payload).
C22_MaskerStreams ==
    Len(out.bytes) = Len(payload) => out.bytes = mask_data(mask, payload)


\* C23: the SIMD mask_data returns, for every key and every length of the
\* input (0, below 32, multiples of 32, and other lengths above 32), exactly
\* the bytes the scalar mask_data returns.
C23_SimdEqualsScalar ==
    out.calls = 1 => out.bytes = mask_data(mask, payload)

\* C23 witness: the SIMD mask_data has masked a payload of more than one
\* block whose last block is not full, with a key that changes it.
C23_Witness ==
    /\ out.calls = 1
    /\ Len(payload) > SIMD_VECTOR_SIZE
    /\ Len(payload) % SIMD_VECTOR_SIZE # 0
    /\ mask = <<1, 2, 3, 4>>
    /\ out.bytes = mask_data(mask, payload)
    /\ out.bytes # payload


\* C24: every way of reading the client key of an upgrade yields the 16
\* bytes its Sec-WebSocket-Key value base64-decodes to, and fails when the
\* value does not decode to 16 bytes: WebSocketKey::from_str,
\* TryFrom<HeaderValue> for WebSocketKey and WsUpgrade::key agree.
C24_KeyReadersAgree ==
    pc = "upgrade"
        => LET value == HeaderGet(request.headers, SEC_WEBSOCKET_KEY)
               decoded16 == Base64Decode(value)
               expected == IF decoded16.ok /\ Len(decoded16.bytes) = 16
                           THEN decoded16 ELSE [ok |-> FALSE, bytes |-> <<>>]
           IN  /\ WebSocketKey_from_str(value) = expected
               /\ WebSocketKey_try_from(value) = expected
               /\ WsUpgrade_key(request) = expected


\* C25: a WebSocketProtocol list is written as its names in order joined by
\* ", ", by Display and by the conversion to a header value alike, and
\* from_str on that text gives the list back.
C25_ProtocolWrittenJoined ==
    /\ rendered.display.done => rendered.display.value = Join(wsProtocol, <<44, 32>>)
    /\ rendered.header.done => rendered.header.value = Join(wsProtocol, <<44, 32>>)
    /\ rendered.parsed.done => rendered.parsed.value = wsProtocol


\* C26: once accept or reject has written the whole response, the bytes on
\* the stream are an HTTP/1.1 response head: they begin with "HTTP/1.1 " and
\* the status whatever version the request had, they are the bytes
\* HttpServerCodec::encode writes for that status and those headers, and
\* HttpClientCodec::decode reads the same status and headers back from them.
C26_ResponseHeadWellFormed ==
    sent.wrote = 2 =>
        LET bytes == WsUpgrade_send_bytes(sent)
            head == ResponseHead("HTTP_11", sent.status, sent.headers)
            back == HttpClientCodec_decode(bytes)
        IN  /\ bytes = HttpServerCodec_encode(head)
            /\ back.kind = "Some"
            /\ back.head.status = sent.status
            /\ back.head.headers = sent.headers
            /\ HttpClientCodec_decode(HttpServerCodec_encode(head)).head = head


\* C27: once into_ws has returned a WsUpgrade (validate returned Ok), accept
\* and accept_with never panic: the request holds a Sec-WebSocket-Key that
\* is readable as text and that from_str decodes to a 16-byte key.
C27_AcceptNeverPanics ==
    [][pc = "upgrade"
        => /\ pc' # "panicked"
           /\ HeaderGet(request.headers, SEC_WEBSOCKET_KEY) # NoValue
           /\ IsVisibleAscii(HeaderGet(request.headers, SEC_WEBSOCKET_KEY))
           /\ WebSocketKey_from_str(HeaderGet(request.headers, SEC_WEBSOCKET_KEY)).ok]_vars


\* C28: a request whose Connection or Upgrade elements come on several header
\* lines of one name is decoded with every line kept in order, and validate
\* returns for it what it returns for the request that carries the same
\* elements on one line, joined by ", "; with "Connection: keep-alive" and
\* then "Connection: Upgrade" the request passes.
C28_SplitLinesSameVerdict ==
    (given \in SplitLineRequests /\ pc # "start") =>
        LET oneLine ==
                [i \in 1..Len(given.headers) |->
                    [name |-> given.headers[i].name,
                     values |-> <<Join(given.headers[i].values, <<44, 32>>)>>]]
            verdict == validate(given.method, given.version, oneLine)
        IN  /\ HttpServerCodec_decode(HttpClientCodec_encode(given)).head = given
            /\ error = IF verdict = "Ok" THEN "none" ELSE verdict
            /\ HeaderGetAll(given.headers, CONNECTION) = <<KEEP_ALIVE, UPGRADE_TOKEN>>
                  => pc = "upgrade"


\* C29: in the echo endpoints at most one Close is sent and nothing is sent
\* after it; when the peer's Close has been taken and the endpoint is done, a
\* Close has been sent; and the sink is never closed, after the peer's
\* Close, before that Close has been given to it (unless the endpoint
\* failed).
C29_CloseOrdering ==
    LET closes == {i \in 1..Len(written) : is_close(written[i])}
        peerClosed == \E i \in 1..Len(received) : is_close(received[i])
    IN  /\ Cardinality(closes) <= 1
        /\ \A i \in closes : i = Len(written)
        /\ (peerClosed /\ task = "done") => closes # {}
        /\ (peerClosed /\ sinkClosed) => (closes # {} \/ task = "failed")

\* C30: in the echo endpoints the replies given to the sink are, in order,
\* the replies to the messages taken before a Close: a Text or Binary message
\* itself, a Pong with the payload of a Ping, nothing for a Pong (after the
\* greeting, for the server that sends one).  At every moment what has been
\* sent is a prefix of them, and with the reply Forward holds it is all of
\* them as long as the endpoint has not failed; nothing is held once the
\* forwarding has ended.
C30_RepliesInOrder ==
    LET Expected(m) ==
            IF m.kind \in {"Text", "Binary"} THEN <<m>>
            ELSE IF m.kind = "Ping" THEN <<[kind |-> "Pong", body |-> m.body]>>
            ELSE <<>>
        closeAt == {i \in 1..Len(received) : received[i].kind = "Close"}
        before ==
            IF closeAt = {} THEN received
            ELSE SubSeq(received, 1, (CHOOSE i \in closeAt : \A j \in closeAt : i <= j) - 1)
        replies[i \in 0..Len(before)] ==
            IF i = 0 THEN <<>> ELSE replies[i - 1] \o Expected(before[i])
        greeting ==
            IF endpoint = "server"
            THEN <<[kind |-> "Text",
                    body |-> <<72, 101, 108, 108, 111, 32, 87, 111, 114, 108, 100, 33>>]>>
            ELSE <<>>
        all == greeting \o replies[Len(before)]
        NotClose(m) == m.kind # "Close"
        echoed == SelectSeq(written, NotClose)
    IN  /\ Len(echoed) <= Len(all)
        /\ echoed = SubSeq(all, 1, Len(echoed))
        /\ task \in {"echo", "closing", "done"} => echoed \o buffered = all
        /\ task \in {"closing", "done"} => buffered = <<>>

\* C30 (witness): the autobahn server has taken a Ping, a Pong and a Text
\* message to the end of the stream and is done: it has sent a Pong, the Text
\* message and its Close.
C30_Witness ==
    /\ endpoint = "autobahn-server"
    /\ task = "done"
    /\ Len(received) = 3
    /\ <<received[1].kind, received[2].kind, received[3].kind>> = <<"Ping", "Pong", "Text">>
    /\ Len(written) = 3

====
